---- MODULE Spec2Model ----
(***************************************************************************)
(* Model of the ranking / trend / moderation core of the social-media      *)
(* clone: TrendDetectionModel and AdvancedRecommendationSystem             *)
(* (ml_models.py), ContentModerator and RecommendationEngine               *)
(* (ml_algorithms.py), the in-memory service of app.py and the post        *)
(* routes of routes/posts.py.  Each component has its own specification    *)
(* (SpecTrend, SpecBackfill and SpecRace; SpecMod and SpecSession; SpecCF, *)
(* SpecMerge and SpecReplay; SpecARS; SpecBehavior and SpecApp; SpecPosts  *)
(* and SpecLike); the variables of the other components stay at their      *)
(* initial values.                                                         *)
(*                                                                         *)
(* Floating point values are modelled as exact rationals <<num, den>> in   *)
(* lowest terms; wall-clock time is modelled at a granularity of one hour. *)
(***************************************************************************)
EXTENDS Integers, Sequences, FiniteSets, TLC

VARIABLES
    now,                 \* wall clock (datetime.now()), in whole hours
    hashtag_popularity,  \* TrendDetectionModel.hashtag_popularity, in dict insertion order
    trending,            \* value returned by the last get_trending_hashtags call
    recorded,            \* history: every update_hashtag_trend call made so far
    reads,               \* history: number of get_trending_hashtags calls made so far
    lastCall,            \* the operation that ran last, with its arguments
    moderator,           \* the ContentModerator object's fields
    modInput,            \* argument of the moderate_text call at hand
    verdict,             \* value returned by the last moderate_text call
    calls,               \* history: every moderate_text call made so far, with its verdict
    posts_data,          \* the caller's list of post dicts handed to the engine
    interactions_data,   \* the caller's list of interaction dicts handed to the engine
    svd_model,           \* RecommendationEngine.svd_model
    recs,                \* value returned by the last recommendation call
    merge_input,         \* the two ranked lists and the k handed to the hybrid merge
    training_data,       \* the interaction log handed to prepare_training_data
    recommender,         \* the AdvancedRecommendationSystem object's fields
    answers,             \* history: every replayed ranking call, with its arguments and result
    users_db,            \* app.py users_db: user id -> profile
    posts_db,            \* app.py posts_db: post id -> post
    reels_db,            \* app.py reels_db: reel id -> reel
    user_preferences,    \* ContentRecommendationSystem.user_preferences
    user_activity_patterns, \* UserBehaviorPredictor.user_activity_patterns
    db,                  \* the SQL tables behind routes/posts.py (committed rows)
    threads              \* requests in progress: position and local variables of each

trendVars == <<now, hashtag_popularity, trending, recorded, reads>>
modVars == <<moderator, modInput, verdict, calls>>
cfVars == <<posts_data, interactions_data, svd_model, recs>>
mergeVars == <<merge_input>>
arsVars == <<training_data, recommender>>
appVars == <<users_db, posts_db, reels_db, user_preferences, user_activity_patterns>>
dbVars == <<db, threads>>
engineVars == <<trendVars, modVars, cfVars, mergeVars, arsVars>>
vars == <<now, hashtag_popularity, trending, recorded, reads, lastCall, moderator, modInput,
          verdict, calls, posts_data, interactions_data, svd_model, recs, merge_input,
          training_data, recommender, answers, users_db, posts_db, reels_db,
          user_preferences, user_activity_patterns, db, threads>>

----------------------------------------------------------------------------
(* Bounds *)

MaxTime == 2        \* the clock runs from 0 to MaxTime hours
MaxRecords == 3     \* update_hashtag_trend calls per behaviour
MaxReads == 2       \* get_trending_hashtags calls per behaviour
MaxExp == 4         \* stored scores keep a denominator of at most 20^MaxExp
MaxLimit == 2       \* largest limit passed to get_trending_hashtags

Hashtags == {"art", "music"}
Deltas == {5, 10}

\* Python string order of the hashtags ("art" < "music")
KeyRank(h) == IF h = "art" THEN 1 ELSE 2

----------------------------------------------------------------------------
(* Exact rational arithmetic standing in for Python floats *)

RECURSIVE GCD(_, _)
GCD(a, b) == IF b = 0 THEN a ELSE GCD(b, a % b)

Abs(x) == IF x < 0 THEN -x ELSE x

Rat(n, d) ==
    LET g == GCD(Abs(n), d)
    IN  IF n = 0 THEN <<0, 1>> ELSE <<n \div g, d \div g>>

RInt(n) == <<n, 1>>

LCM(a, b) == (a \div GCD(a, b)) * b

RAdd(x, y) ==
    LET l == LCM(x[2], y[2])
    IN  Rat(x[1] * (l \div x[2]) + y[1] * (l \div y[2]), l)

RMul(x, y) ==
    LET g1 == GCD(Abs(x[1]), y[2])
        g2 == GCD(Abs(y[1]), x[2])
    IN  IF x[1] = 0 \/ y[1] = 0 THEN <<0, 1>>
        ELSE Rat((x[1] \div g1) * (y[1] \div g2), (x[2] \div g2) * (y[2] \div g1))

RLess(x, y) ==
    LET l == LCM(x[2], y[2])
    IN  x[1] * (l \div x[2]) < y[1] * (l \div y[2])

RLeq(x, y) == ~RLess(y, x)

RECURSIVE IPow(_, _)
IPow(b, e) == IF e = 0 THEN 1 ELSE b * IPow(b, e - 1)

----------------------------------------------------------------------------
(* TrendDetectionModel *)

\* self.time_decay_factor = 0.95 = 19/20
time_decay_factor == <<19, 20>>

\* self.time_decay_factor ** time_diff, time_diff in whole hours
DecayOffByOne(time_diff) ==
    <<IPow(time_decay_factor[1], time_diff + 1), IPow(time_decay_factor[2], time_diff + 1)>>

Decay(time_diff) ==
    IF time_diff >= 0
    THEN <<IPow(time_decay_factor[1], time_diff), IPow(time_decay_factor[2], time_diff)>>
    ELSE <<IPow(time_decay_factor[2], -time_diff), IPow(time_decay_factor[1], -time_diff)>>

IndexOf(hashtag, pop) ==
    IF \E i \in 1..Len(pop) : pop[i].hashtag = hashtag
    THEN CHOOSE i \in 1..Len(pop) : pop[i].hashtag = hashtag
    ELSE 0

\* if hashtag not in self.hashtag_popularity: insert the zero entry
WithEntry(pop, hashtag, timestamp) ==
    IF IndexOf(hashtag, pop) = 0
    THEN Append(pop, [hashtag |-> hashtag, score |-> <<0, 1>>,
                      last_updated |-> timestamp, mentions |-> 0])
    ELSE pop

\* the body of update_hashtag_trend applied to the dict
UpdatedPopularity(pop, hashtag, engagement_score, timestamp) ==
    LET p == WithEntry(pop, hashtag, timestamp)
        i == IndexOf(hashtag, p)
        time_diff == timestamp - p[i].last_updated
        decay == Decay(time_diff)
    IN  [p EXCEPT ![i] = [hashtag |-> hashtag,
                          score |-> RAdd(RMul(p[i].score, decay), RInt(engagement_score)),
                          last_updated |-> timestamp,
                          mentions |-> p[i].mentions + 1]]

\* the denominators the update would produce stay within the modelled precision
FitsPrecision(pop, timestamp) ==
    \A i \in 1..Len(pop) :
        /\ timestamp - pop[i].last_updated <= MaxExp
        /\ pop[i].score[2] <= IPow(20, MaxExp) \div IPow(20, Abs(timestamp - pop[i].last_updated))

\* called without a timestamp: timestamp = datetime.now()
update_hashtag_trend(hashtag, engagement_score) ==
    /\ Len(recorded) < MaxRecords
    /\ FitsPrecision(hashtag_popularity, now)
    /\ hashtag_popularity' = UpdatedPopularity(hashtag_popularity, hashtag, engagement_score, now)
    /\ recorded' = Append(recorded, [hashtag |-> hashtag, delta |-> engagement_score, at |-> now])
    /\ lastCall' = [op |-> "record", hashtag |-> hashtag, delta |-> engagement_score, at |-> now]
    /\ UNCHANGED <<now, trending, reads, modVars, cfVars, mergeVars, arsVars, answers,
                   appVars, dbVars>>

\* the decay loop of get_trending_hashtags: score *= decay, last_updated untouched
DecayedPopularity(pop, current_time) ==
    [i \in 1..Len(pop) |->
        [pop[i] EXCEPT !.score = RMul(pop[i].score, Decay(current_time - pop[i].last_updated))]]

\* a sort that puts an entry ahead of the entries of equal score
InsertByScoreTiesFirst(sorted, e) ==
    LET after == {j \in 1..Len(sorted) : RLess(e.score, sorted[j].score)}
        pos == IF after = {} THEN 0 ELSE CHOOSE j \in after : \A m \in after : m <= j
    IN  SubSeq(sorted, 1, pos) \o <<e>> \o SubSeq(sorted, pos + 1, Len(sorted))

\* sorted(..., key=score, reverse=True): stable, equal scores keep dict order
InsertByScore(sorted, e) ==
    LET after == {j \in 1..Len(sorted) : RLeq(e.score, sorted[j].score)}
        pos == IF after = {} THEN 0 ELSE CHOOSE j \in after : \A m \in after : m <= j
    IN  SubSeq(sorted, 1, pos) \o <<e>> \o SubSeq(sorted, pos + 1, Len(sorted))

RECURSIVE SortedByScoreBasic(_)
SortedByScoreBasic(pop) ==
    IF pop = <<>> THEN <<>>
    ELSE InsertByScore(SortedByScoreBasic(SubSeq(pop, 1, Len(pop) - 1)), pop[Len(pop)])

\* a sort that forgets to sort
SortedByScoreUnsorted(pop) == pop

SortedByScore(pop) == SortedByScoreBasic(pop)

Min(a, b) == IF a < b THEN a ELSE b
Max(a, b) == IF a > b THEN a ELSE b

\* [(hashtag, data['score'], data['mentions']) for hashtag, data in trending[:limit]]
TrendingResult(pop, limit) ==
    LET s == SortedByScore(pop)
        n == IF limit >= 0 THEN Min(limit, Len(s)) ELSE Max(0, Len(s) + limit)
    IN  [i \in 1..n |->
            [hashtag |-> s[i].hashtag, score |-> s[i].score, mentions |-> s[i].mentions]]

get_trending_hashtags(limit) ==
    /\ reads < MaxReads
    /\ FitsPrecision(hashtag_popularity, now)
    /\ hashtag_popularity' = DecayedPopularity(hashtag_popularity, now)
    /\ trending' = TrendingResult(hashtag_popularity', limit)
    /\ reads' = reads + 1
    /\ lastCall' = [op |-> "top", limit |-> limit, at |-> now]
    /\ UNCHANGED <<now, recorded, modVars, cfVars, mergeVars, arsVars, answers,
                   appVars, dbVars>>

\* wall-clock time passes
Tick ==
    /\ now < MaxTime
    /\ now' = now + 1
    /\ UNCHANGED <<hashtag_popularity, trending, recorded, reads, lastCall, modVars, cfVars,
                   mergeVars, arsVars, answers,
                   appVars, dbVars>>

NoCall == [op |-> "none"]

TrendIdle ==
    /\ now = 0
    /\ hashtag_popularity = <<>>
    /\ trending = <<>>
    /\ recorded = <<>>
    /\ reads = 0

inappropriate_keywords ==
    {<<"s", "p", "a", "m">>,
     <<"h", "a", "t", "e">>,
     <<"a", "b", "u", "s", "e">>,
     <<"v", "i", "o", "l", "e", "n", "c", "e">>,
     <<"h", "a", "r", "a", "s", "s", "m", "e", "n", "t">>,
     <<"b", "u", "l", "l", "y", "i", "n", "g">>,
     <<"d", "i", "s", "c", "r", "i", "m", "i", "n", "a", "t", "i", "o", "n">>,
     <<"t", "h", "r", "e", "a", "t">>,
     <<"d", "a", "n", "g", "e", "r", "o", "u", "s">>,
     <<"i", "l", "l", "e", "g", "a", "l">>}

\* ContentModerator.__init__
ContentModerator ==
    [inappropriate_keywords |-> inappropriate_keywords, sentiment_threshold |-> <<-1, 2>>]

ModIdle ==
    /\ moderator = ContentModerator
    /\ modInput = [kind |-> "none"]
    /\ verdict = [kind |-> "none"]
    /\ calls = <<>>

\* no merge requested
MergeIdle == merge_input = [kind |-> "none"]

\* AdvancedRecommendationSystem.__init__ and no log at hand
AdvancedRecommendationSystem ==
    [trained |-> FALSE, user_item_matrix |-> <<>>, user_idx |-> <<>>, item_idx |-> <<>>]

ARSIdle ==
    /\ training_data = <<>>
    /\ recommender = AdvancedRecommendationSystem

ReplayIdle == answers = <<>>

\* app.py 33-35: the module-level dictionaries start empty
EmptyDict == [key \in {} |-> 0]

AppIdle ==
    /\ users_db = EmptyDict
    /\ posts_db = EmptyDict
    /\ reels_db = EmptyDict
    /\ user_preferences = EmptyDict
    /\ user_activity_patterns = EmptyDict

DBIdle ==
    /\ db = [posts |-> <<>>, comments |-> <<>>, likes |-> {}, notifications |-> 0,
             like_seq |-> 0]
    /\ threads = EmptyDict

NoModel == [state |-> "None"]

\* RecommendationEngine.__init__ and a caller without data
CFIdle ==
    /\ posts_data = <<>>
    /\ interactions_data = <<>>
    /\ svd_model = NoModel
    /\ recs = <<>>

InitTrend ==
    /\ TrendIdle
    /\ ReplayIdle
    /\ AppIdle
    /\ DBIdle
    /\ ModIdle
    /\ CFIdle
    /\ MergeIdle
    /\ ARSIdle
    /\ lastCall = NoCall

NextTrend ==
    \/ \E h \in Hashtags, d \in Deltas : update_hashtag_trend(h, d)
    \/ \E l \in -1..MaxLimit : get_trending_hashtags(l)
    \/ Tick

SpecTrend == InitTrend /\ [][NextTrend]_vars

----------------------------------------------------------------------------
(* ContentModerator *)

MaxFragments == 6    \* a text is made of at most MaxFragments fragments
MaxCalls == 3        \* moderate_text calls per behaviour

\* texts are sequences of characters; a text is a list of fragments joined by blanks
Fragments ==
    {<<"h", "a", "t", "e">>,
     <<"b", "u", "y">>,
     <<"n", "o", "w">>}

\* whole texts considered besides the fragment combinations
SpecialTexts ==
    {<<"T", "h", "i", "s", " ", "i", "s", " ", "a", "m", "a", "z", "i", "n", "g", ",", " ", "b", "u", "y", " ", "n", "o", "w", " ", "u", "r", "g", "e", "n", "t", " ", "o", "f", "f", "e", "r", "!", "!", "!">>,
     <<"b", "u", "y", "\n", "n", "o", "w">>,
     <<"n", "o", "w", " ", "b", "u", "y">>,
     <<"W", "I", "N">>,
     <<"h", "a", "t", "e", "f", "u", "l">>,
     <<"I", " ", "H", "A", "T", "E", " ", "t", "h", "i", "s">>,
     <<"\n">>,
     <<"o", "k">>,
     <<"v", "i", "s", "i", "t", " ", "m", "y", " ", "u", "r", "l">>}

RECURSIVE Join(_)
Join(fs) ==
    IF fs = <<>> THEN <<>>
    ELSE IF Len(fs) = 1 THEN fs[1]
    ELSE fs[1] \o <<" ">> \o Join(Tail(fs))

FragmentLists == UNION {[1..n -> Fragments] : n \in 0..MaxFragments}

Texts == {Join(fs) : fs \in FragmentLists} \cup SpecialTexts

\* what the sentiment subsystem (TextBlob) does with the text
Sentiments == {"negative", "not_negative", "unavailable"}

\* arguments of moderate_text: a string with the sentiment subsystem's answer
\* for it, None, or a value that is not a string
ModInputs ==
    {[kind |-> "str", text |-> t, sentiment |-> p] : t \in Texts, p \in Sentiments}
        \cup {[kind |-> "None"], [kind |-> "int", value |-> 0], [kind |-> "int", value |-> 5]}

\* str.lower() on the characters that occur
LowerChar(c) ==
    CASE c = "T" -> "t" [] c = "W" -> "w" [] c = "I" -> "i" [] c = "N" -> "n"
      [] c = "H" -> "h" [] c = "A" -> "a" [] c = "E" -> "e"
      [] OTHER -> c

Lower(text) == [i \in 1..Len(text) |-> LowerChar(text[i])]

IsSpace(c) == c \in {" ", "\n"}

\* the word w occurs in text at position i
OccursAt(w, text, i) ==
    /\ i + Len(w) - 1 <= Len(text)
    /\ text[i] = w[1]
    /\ SubSeq(text, i, i + Len(w) - 1) = w

\* Python: w in text
Contains(text, w) == \E i \in 1..Len(text) : OccursAt(w, text, i)

\* str.split(): the maximal runs of non-whitespace characters
RECURSIVE SplitFrom(_, _, _)
SplitFrom(text, i, cur) ==
    IF i > Len(text) THEN (IF cur = <<>> THEN <<>> ELSE <<cur>>)
    ELSE IF IsSpace(text[i])
         THEN (IF cur = <<>> THEN <<>> ELSE <<cur>>) \o SplitFrom(text, i + 1, <<>>)
         ELSE SplitFrom(text, i + 1, Append(cur, text[i]))

Split(text) == SplitFrom(text, 1, <<>>)

\* self.sentiment_threshold = -0.5: the polarity is below it or not
BelowSentimentThreshold(sentiment) == sentiment = "negative"

\* re.search(r'(a|b).*(c|d)', text): a first word, then any characters but
\* a newline, then a second word
SearchPair(text, firsts, seconds) ==
    \E w1 \in firsts, i \in 1..Len(text) :
        /\ OccursAt(w1, text, i)
        /\ \E w2 \in seconds, j \in (i + Len(w1))..Len(text) :
              /\ OccursAt(w2, text, j)
              /\ \A m \in (i + Len(w1))..(j - 1) : text[m] # "\n"

\* re.search(r'(a|b|c)', text)
SearchAny(text, words) == \E w \in words : Contains(text, w)

\* the four spam_patterns, applied to the lowercased text
spam_pattern_1(text) ==
    SearchPair(text, {<<"b", "u", "y">>, <<"s", "a", "l", "e">>, <<"d", "i", "s", "c", "o", "u", "n", "t">>, <<"o", "f", "f", "e", "r">>, <<"d", "e", "a", "l">>},
                     {<<"n", "o", "w">>, <<"t", "o", "d", "a", "y">>, <<"u", "r", "g", "e", "n", "t">>})

spam_pattern_2(text) ==
    SearchPair(text, {<<"c", "l", "i", "c", "k">>, <<"v", "i", "s", "i", "t">>},
                     {<<"l", "i", "n", "k">>, <<"w", "e", "b", "s", "i", "t", "e">>, <<"u", "r", "l">>})

spam_pattern_3(text) ==
    SearchAny(text, {<<"f", "r", "e", "e">>, <<"w", "i", "n">>, <<"p", "r", "i", "z", "e">>, <<"l", "o", "t", "t", "e", "r", "y">>, <<"m", "o", "n", "e", "y">>})

spam_pattern_4(text) ==
    SearchAny(text, {<<"u", "r", "g", "e", "n", "t">>, <<"l", "i", "m", "i", "t", "e", "d">>, <<"e", "x", "p", "i", "r", "e", "s">>, <<"h", "u", "r", "r", "y">>})

\* for pattern in spam_patterns: if re.search(pattern, text_lower): return True
MatchesSpamPattern(text) ==
    LET text_lower == Lower(text)
    IN  \/ spam_pattern_1(text_lower)
        \/ spam_pattern_2(text_lower)
        \/ spam_pattern_3(text_lower)
        \/ spam_pattern_4(text_lower)

ToSet(seq) == {seq[i] : i \in 1..Len(seq)}

\* len(words) > 5 and len(words) / len(unique_words) > 3
ExcessiveRepetitionLoose(words) ==
    /\ Len(words) >= 5
    /\ Len(words) >= 3 * Cardinality(ToSet(words))

ExcessiveRepetition(words) ==
    /\ Len(words) > 5
    /\ Len(words) > 3 * Cardinality(ToSet(words))

\* ContentModerator._is_spam
is_spam(text) ==
    IF MatchesSpamPattern(text) THEN TRUE
    ELSE ExcessiveRepetition(Split(Lower(text)))

approve_result ==
    [is_appropriate |-> TRUE, confidence |-> <<1, 1>>, issues |-> <<>>,
     suggested_action |-> "approve"]

\* the except branch hands back the untouched default result
error_result_approve ==
    [is_appropriate |-> TRUE, confidence |-> <<1, 1>>, issues |-> <<>>,
     suggested_action |-> "approve"]

error_result ==
    [is_appropriate |-> TRUE, confidence |-> <<1, 2>>, issues |-> <<"moderation_error">>,
     suggested_action |-> "review"]

\* step 1: banned keywords, searched in the text as given
AfterKeywordsCaseSensitive(r, text) ==
    IF \E k \in moderator.inappropriate_keywords : Contains(text, k)
    THEN [r EXCEPT !.is_appropriate = FALSE,
                   !.issues = Append(@, "inappropriate_language"),
                   !.confidence = <<4, 5>>]
    ELSE r

\* step 1: banned keywords
AfterKeywords(r, text) ==
    IF LET text_lower == Lower(text)
       IN  \E k \in moderator.inappropriate_keywords : Contains(text_lower, k)
    THEN [r EXCEPT !.is_appropriate = FALSE,
                   !.issues = Append(@, "inappropriate_language"),
                   !.confidence = <<4, 5>>]
    ELSE r

\* step 2: sentiment, skipped when TextBlob raises
AfterSentimentStrict(r, sentiment) ==
    IF BelowSentimentThreshold(sentiment)
    THEN [r EXCEPT !.is_appropriate = FALSE,
                   !.issues = Append(@, "negative_sentiment"),
                   !.confidence = RMul(@, <<9, 10>>)]
    ELSE r

AfterSentiment(r, sentiment) ==
    IF sentiment # "unavailable" /\ BelowSentimentThreshold(sentiment)
    THEN [r EXCEPT !.issues = Append(@, "negative_sentiment"),
                   !.confidence = RMul(@, <<9, 10>>)]
    ELSE r

\* step 3: spam; the spam confidence keeps what the earlier steps left
AfterSpamKeepConfidence(r, text) ==
    IF is_spam(text)
    THEN [r EXCEPT !.is_appropriate = FALSE,
                   !.issues = Append(@, "spam")]
    ELSE r

\* step 3: spam, tagged once for every pattern that matches
AfterSpamPerPattern(r, text) ==
    LET text_lower == Lower(text)
        tag(hit, issues) == IF hit THEN Append(issues, "spam") ELSE issues
    IN  IF is_spam(text)
        THEN [r EXCEPT !.is_appropriate = FALSE,
                       !.issues = tag(ExcessiveRepetition(Split(text_lower)),
                                      tag(spam_pattern_4(text_lower),
                                          tag(spam_pattern_3(text_lower),
                                              tag(spam_pattern_2(text_lower),
                                                  tag(spam_pattern_1(text_lower), @))))),
                       !.confidence = <<7, 10>>]
        ELSE r

AfterSpam(r, text) ==
    IF is_spam(text)
    THEN [r EXCEPT !.is_appropriate = FALSE,
                   !.issues = Append(@, "spam"),
                   !.confidence = <<7, 10>>]
    ELSE r

\* step 4: an inappropriate text is always blocked
WithActionAlwaysBlock(r) ==
    IF ~r.is_appropriate THEN [r EXCEPT !.suggested_action = "block"] ELSE r

WithAction(r) ==
    IF ~r.is_appropriate
    THEN IF RLess(<<7, 10>>, r.confidence)
         THEN [r EXCEPT !.suggested_action = "block"]
         ELSE [r EXCEPT !.suggested_action = "review"]
    ELSE r

\* `not text`: None, 0 and the empty string
Falsy(input) ==
    \/ input.kind = "None"
    \/ input.kind = "int" /\ input.value = 0
    \/ input.kind = "str" /\ input.text = <<>>

\* moderate_text with the sentiment step ahead of the keyword step
ModerateTextSentimentFirst(input) ==
    IF Falsy(input) THEN approve_result
    ELSE IF input.kind # "str" THEN error_result
    ELSE WithAction(AfterSpam(AfterKeywords(AfterSentiment(approve_result, input.sentiment),
                                            input.text),
                              input.text))

\* moderate_text without the inner try: a failing sentiment step ends in the
\* outer except branch
ModerateTextSentimentFatal(input) ==
    IF Falsy(input) THEN approve_result
    ELSE IF input.kind # "str" THEN error_result
    ELSE IF input.sentiment = "unavailable" THEN error_result
    ELSE WithAction(AfterSpam(AfterSentiment(AfterKeywords(approve_result, input.text),
                                             input.sentiment),
                              input.text))

\* ContentModerator.moderate_text
ModerateText(input) ==
    IF Falsy(input) THEN approve_result
    ELSE IF input.kind # "str" THEN error_result   \* text.lower() raises
    ELSE WithAction(AfterSpam(AfterSentiment(AfterKeywords(approve_result, input.text),
                                             input.sentiment),
                              input.text))

NoVerdict == [kind |-> "none"]

\* a call that keeps what it saw: the first word of a text joins the keyword list
moderate_text_remembering ==
    /\ modInput.kind # "none"
    /\ Len(calls) < MaxCalls
    /\ verdict' = ModerateText(modInput)
    /\ calls' = Append(calls, [input |-> modInput, verdict |-> verdict'])
    /\ moderator' = IF modInput.kind = "str" /\ Split(Lower(modInput.text)) # <<>>
                    THEN [moderator EXCEPT !.inappropriate_keywords =
                                               @ \cup {Split(Lower(modInput.text))[1]}]
                    ELSE moderator
    /\ lastCall' = [op |-> "moderate"]
    /\ UNCHANGED <<modInput, trendVars, cfVars, mergeVars, arsVars, answers,
                   appVars, dbVars>>

\* one call of moderate_text on the argument at hand; nothing is assigned to self
moderate_text ==
    /\ modInput.kind # "none"
    /\ Len(calls) < MaxCalls
    /\ verdict' = ModerateText(modInput)
    /\ calls' = Append(calls, [input |-> modInput, verdict |-> verdict'])
    /\ lastCall' = [op |-> "moderate"]
    /\ UNCHANGED <<moderator, modInput, trendVars, cfVars, mergeVars, arsVars, answers,
                   appVars, dbVars>>

InitMod ==
    /\ TrendIdle
    /\ ReplayIdle
    /\ AppIdle
    /\ DBIdle
    /\ CFIdle
    /\ MergeIdle
    /\ ARSIdle
    /\ moderator = ContentModerator
    /\ modInput \in ModInputs
    /\ verdict = NoVerdict
    /\ calls = <<>>
    /\ lastCall = NoCall

NextMod == moderate_text

SpecMod == InitMod /\ [][NextMod]_vars

\* a moderator serving one request after the other: the captions and comments
\* the routes hand to moderate_text
SessionTexts ==
    {<<"I", " ", "H", "A", "T", "E", " ", "t", "h", "i", "s">>,
     <<"W", "I", "N">>,
     <<"o", "k">>}

SessionInputs ==
    {[kind |-> "str", text |-> t, sentiment |-> p] : t \in SessionTexts, p \in Sentiments}
        \cup {[kind |-> "int", value |-> 5]}

\* the next request arrives with its text
Request(input) ==
    /\ Len(calls) < MaxCalls
    /\ input # modInput
    /\ modInput' = input
    /\ verdict' = NoVerdict
    /\ lastCall' = [op |-> "request"]
    /\ UNCHANGED <<moderator, calls, trendVars, cfVars, mergeVars, arsVars, answers,
                   appVars, dbVars>>

InitSession ==
    /\ TrendIdle
    /\ ReplayIdle
    /\ AppIdle
    /\ DBIdle
    /\ ModIdle
    /\ CFIdle
    /\ MergeIdle
    /\ ARSIdle
    /\ lastCall = NoCall

NextSession ==
    \/ \E input \in SessionInputs : Request(input)
    \/ moderate_text

SpecSession == InitSession /\ [][NextSession]_vars

----------------------------------------------------------------------------
(* RecommendationEngine *)

MaxLog == 2          \* interactions the caller holds at a time
MaxK == 2            \* largest num_recommendations asked for

Users == {1, 2}
CallerIds == {1, 9}              \* 9 never occurs in the interaction data
Ratings == {1}                   \* interaction.get('rating', 1)
LogPostIds == {1, 2}

\* the posts the caller can hold, in creation order; created_at in hours of the
\* clock: post 2 is ten days old at hour 0, where the engagement is 1, 2 and 1
PostCatalogue ==
    <<[id |-> 1, likes_count |-> 1, comments_count |-> 0, created_at |-> 0,
       engagement_score |-> "unset"],
      [id |-> 2, likes_count |-> 2, comments_count |-> 1, created_at |-> -240,
       engagement_score |-> "unset"],
      [id |-> 3, likes_count |-> 1, comments_count |-> 0, created_at |-> 0,
       engagement_score |-> "unset"]>>

IdsOf(posts) == {posts[i].id : i \in 1..Len(posts)}

\* max(0.1, 1 / (1 + days_old * 0.1))
time_factor(days_old) ==
    LET f == Rat(10, 10 + days_old)
    IN  IF RLess(f, <<1, 10>>) THEN <<1, 10>> ELSE f

\* (datetime.utcnow() - post_date).days
DaysOld(post) == (now - post.created_at) \div 24

\* (likes + comments * 2 + shares * 3) * time_factor; the dicts carry no shares_count
EngagementScore(post) ==
    RMul(RInt(post.likes_count + post.comments_count * 2 + 0 * 3), time_factor(DaysOld(post)))

\* the loop of get_trending_posts writes engagement_score into every dict
ScoredPosts(posts) ==
    [i \in 1..Len(posts) |-> [posts[i] EXCEPT !.engagement_score = EngagementScore(posts[i])]]

\* sorted(posts_data, key=engagement_score, reverse=True): stable
InsertByEngagement(sorted, e) ==
    LET after == {j \in 1..Len(sorted) :
                     RLeq(e.engagement_score, sorted[j].engagement_score)}
        pos == IF after = {} THEN 0 ELSE CHOOSE j \in after : \A m \in after : m <= j
    IN  SubSeq(sorted, 1, pos) \o <<e>> \o SubSeq(sorted, pos + 1, Len(sorted))

RECURSIVE SortedByEngagement(_)
SortedByEngagement(posts) ==
    IF posts = <<>> THEN <<>>
    ELSE InsertByEngagement(SortedByEngagement(SubSeq(posts, 1, Len(posts) - 1)),
                            posts[Len(posts)])

\* RecommendationEngine.get_trending_posts: the ids returned
TrendingIds(posts, k) ==
    LET s == SortedByEngagement(ScoredPosts(posts))
    IN  [i \in 1..Min(k, Len(s)) |-> s[i].id]

\* list(user_posts.keys()): the users in first-seen order
RECURSIVE FirstSeenUsers(_)
FirstSeenUsers(log) ==
    IF log = <<>> THEN <<>>
    ELSE LET r == FirstSeenUsers(SubSeq(log, 1, Len(log) - 1))
             u == log[Len(log)].user_id
         IN  IF u \in ToSet(r) THEN r ELSE Append(r, u)

\* list(set(ids)) for small non-negative integers: ascending
RECURSIVE Ascending(_)
Ascending(S) ==
    IF S = {} THEN <<>>
    ELSE LET m == CHOOSE x \in S : \A y \in S : x <= y
         IN  <<m>> \o Ascending(S \ {m})

AllPosts(posts) == Ascending(IdsOf(posts))

\* user_posts[user][post] = rating: the last rating of the pair wins
LastRating(log, user, post) ==
    LET at == {i \in 1..Len(log) : log[i].user_id = user /\ log[i].post_id = post}
    IN  IF at = {} THEN 0
        ELSE log[CHOOSE i \in at : \A j \in at : j <= i].rating

\* matrix[user_idx[user]][post_idx[post]], zero where nothing was written
MatrixCell(log, posts, user, post) ==
    IF post \in IdsOf(posts) THEN LastRating(log, user, post) ELSE 0

SvdMaxComponents == 50

\* TruncatedSVD(n_components=min(50, len(all_users) - 1))
NComponents(n_users) == Min(SvdMaxComponents, n_users - 1)

\* self.svd_model after the assignment and fit(matrix): fit raises on an empty
\* matrix and on n_components > n_features; whether it raises on
\* n_components = 0 and on n_components = n_features depends on the
\* scikit-learn release, so both outcomes are possible
FitOutcomes(n_users, n_posts) ==
    LET c == NComponents(n_users)
        unfitted == [state |-> "unfitted", n_components |-> c, n_features |-> 0]
        fitted == [state |-> "fitted", n_components |-> c, n_features |-> n_posts]
    IN  IF n_users = 0 \/ n_posts = 0 \/ c > n_posts THEN {unfitted}
        ELSE IF c = 0 \/ c = n_posts THEN {unfitted, fitted}
        ELSE {fitted}

\* transform() works on a fitted model with the matrix's number of columns, and
\* cosine_similarity(user_reduced, all_posts_reduced.T) accepts its arguments
\* only when the number of components equals the number of users
SimilarityComputed(model, user_id, users, n_posts) ==
    /\ model.state = "fitted"
    /\ user_id \in ToSet(users)
    /\ model.n_features = n_posts
    /\ model.n_components >= 1
    /\ model.n_components = Len(users)

Perms(n) == {f \in [1..n -> 1..n] : \A i, j \in 1..n : f[i] = f[j] => i = j}

\* every outcome of collaborative_filtering_recommendations: the list returned,
\* the post dicts and the model afterwards
CollabResults(user_id, posts, log, k, model) ==
    LET users == FirstSeenUsers(log)
        all_posts == AllPosts(posts)
        models == IF model = NoModel THEN FitOutcomes(Len(users), Len(all_posts))
                  ELSE {model}
    IN  UNION {
          IF SimilarityComputed(m, user_id, users, Len(all_posts))
          THEN \* np.argsort(similarities)[::-1][:k]: the order depends on the
               \* numerical similarities, any order is possible
               {[recs |-> [i \in 1..Min(k, m.n_components) |-> all_posts[perm[i]]],
                 posts |-> posts, model |-> m, path |-> "similarity"] :
                    perm \in Perms(m.n_components)}
          ELSE \* new user, or an exception: trending posts
               {[recs |-> TrendingIds(posts, k),
                 posts |-> ScoredPosts(posts), model |-> m, path |-> "trending"]}
          : m \in models}

collaborative_filtering_recommendations(user_id, k) ==
    \E r \in CollabResults(user_id, posts_data, interactions_data, k, svd_model) :
        /\ recs' = r.recs
        /\ posts_data' = r.posts
        /\ svd_model' = r.model
        /\ lastCall' = [op |-> "collab", user_id |-> user_id, k |-> k, path |-> r.path]
        /\ UNCHANGED <<interactions_data, trendVars, modVars, mergeVars, arsVars, answers,
                   appVars, dbVars>>

\* every outcome of content_based_recommendations: the TF-IDF similarities
\* depend on the texts, so any order of the posts is possible; an exception
\* (for instance an empty vocabulary) or an empty corpus gives trending posts
ContentResults(posts, k) ==
    {[recs |-> TrendingIds(posts, k), posts |-> ScoredPosts(posts)]}
        \cup {[recs |-> ranked, posts |-> posts] :
                  ranked \in {[i \in 1..Min(k, Len(posts)) |-> posts[perm[i]].id] :
                                 perm \in Perms(Len(posts))}}

collab_weight == <<3, 5>>
content_weight == <<2, 5>>

\* weight * (1 - idx / len(recs)), idx counted from 0
PositionScoreOneBased(weight, idx, len) ==
    RMul(weight, Rat(len - (idx + 1), len))

PositionScore(weight, idx, len) ==
    RMul(weight, Rat(len - idx, len))

ScoreIndex(post_scores, post_id) ==
    IF \E i \in 1..Len(post_scores) : post_scores[i].post_id = post_id
    THEN CHOOSE i \in 1..Len(post_scores) : post_scores[i].post_id = post_id
    ELSE 0

\* post_scores[post_id] = post_scores.get(post_id, 0) + term
AddScore(post_scores, post_id, term) ==
    LET i == ScoreIndex(post_scores, post_id)
    IN  IF i = 0 THEN Append(post_scores, [post_id |-> post_id, score |-> term])
        ELSE [post_scores EXCEPT ![i].score = RAdd(@, term)]

\* for idx, post_id in enumerate(ranked): accumulate the position scores
RECURSIVE Accumulate(_, _, _, _)
Accumulate(post_scores, ranked, weight, n) ==
    IF n = 0 THEN post_scores
    ELSE AddScore(Accumulate(post_scores, ranked, weight, n - 1),
                  ranked[n], PositionScore(weight, n - 1, Len(ranked)))

\* the merge of hybrid_recommendations
HybridMerge(collab_recs, content_recs, k) ==
    LET post_scores == Accumulate(Accumulate(<<>>, collab_recs, collab_weight,
                                             Len(collab_recs)),
                                  content_recs, content_weight, Len(content_recs))
        sorted_posts == SortedByScoreBasic(post_scores)
    IN  [post_scores |-> post_scores,
         recs |-> [i \in 1..Min(k, Len(sorted_posts)) |-> sorted_posts[i].post_id]]

hybrid_recommendations(user_id, k) ==
    \E c \in CollabResults(user_id, posts_data, interactions_data, k, svd_model) :
        \E t \in ContentResults(c.posts, k) :
            LET m == HybridMerge(c.recs, t.recs, k)
            IN  /\ recs' = m.recs
                /\ posts_data' = t.posts
                /\ svd_model' = c.model
                /\ lastCall' = [op |-> "hybrid", user_id |-> user_id, k |-> k,
                                collab_recs |-> c.recs, content_recs |-> t.recs,
                                post_scores |-> m.post_scores]
                /\ UNCHANGED <<interactions_data, trendVars, modVars, mergeVars, arsVars, answers,
                   appVars, dbVars>>

\* the caller's data changes between requests; the list returned is consumed
DataChanged == [op |-> "data"]

AddPost ==
    /\ Len(posts_data) < Len(PostCatalogue)
    /\ posts_data' = Append(posts_data, PostCatalogue[Len(posts_data) + 1])
    /\ recs' = <<>>
    /\ lastCall' = DataChanged
    /\ UNCHANGED <<interactions_data, svd_model, trendVars, modVars, mergeVars, arsVars, answers,
                   appVars, dbVars>>

AddInteraction(user, post, rating) ==
    /\ Len(interactions_data) < MaxLog
    /\ interactions_data' = Append(interactions_data,
                                   [user_id |-> user, post_id |-> post, rating |-> rating])
    /\ recs' = <<>>
    /\ lastCall' = DataChanged
    /\ UNCHANGED <<posts_data, svd_model, trendVars, modVars, mergeVars, arsVars, answers,
                   appVars, dbVars>>

\* a like is withdrawn or a comment deactivated
RemoveInteraction(i) ==
    /\ i \in 1..Len(interactions_data)
    /\ interactions_data' = SubSeq(interactions_data, 1, i - 1)
                                \o SubSeq(interactions_data, i + 1, Len(interactions_data))
    /\ recs' = <<>>
    /\ lastCall' = DataChanged
    /\ UNCHANGED <<posts_data, svd_model, trendVars, modVars, mergeVars, arsVars, answers,
                   appVars, dbVars>>

InitCF ==
    /\ TrendIdle
    /\ ReplayIdle
    /\ AppIdle
    /\ DBIdle
    /\ ModIdle
    /\ CFIdle
    /\ MergeIdle
    /\ ARSIdle
    /\ lastCall = NoCall

NextCF ==
    \/ AddPost
    \/ \E u \in Users, p \in LogPostIds, r \in Ratings : AddInteraction(u, p, r)
    \/ \E i \in 1..MaxLog : RemoveInteraction(i)
    \/ \E u \in CallerIds, k \in 1..MaxK : collaborative_filtering_recommendations(u, k)
    \/ \E u \in CallerIds, k \in 1..MaxK : hybrid_recommendations(u, k)

SpecCF == InitCF /\ [][NextCF]_vars

----------------------------------------------------------------------------
(* The merge of hybrid_recommendations on the lists its two recommenders can return *)

MaxRanked == 3       \* longest ranked list handed to the merge

RankedItems == 1..4  \* post ids

RankedLists ==
    UNION {{r \in [1..n -> RankedItems] : \A i, j \in 1..n : r[i] = r[j] => i = j} :
              n \in 0..MaxRanked}

\* both recommenders rank posts of posts_data and cut at num_recommendations;
\* the content list is as long as that allows, the collaborative list may be
\* shorter
MergeInputs ==
    {[kind |-> "lists", collab_recs |-> x[1], content_recs |-> x[2], k |-> x[3]] :
        x \in {y \in RankedLists \X RankedLists \X (0..MaxRanked) :
                  /\ Len(y[1]) <= Len(y[2])
                  /\ Len(y[2]) <= y[3]
                  /\ (Len(y[2]) < y[3] => ToSet(y[1]) \subseteq ToSet(y[2]))}}

\* lines 138-151 of hybrid_recommendations applied to the lists at hand
merge_recommendations ==
    /\ merge_input.kind = "lists"
    /\ lastCall = NoCall
    /\ LET m == HybridMerge(merge_input.collab_recs, merge_input.content_recs, merge_input.k)
       IN  /\ recs' = m.recs
           /\ lastCall' = [op |-> "merge", post_scores |-> m.post_scores]
    /\ UNCHANGED <<posts_data, interactions_data, svd_model, merge_input, trendVars, modVars,
                   arsVars, answers,
                   appVars, dbVars>>

InitMerge ==
    /\ TrendIdle
    /\ ReplayIdle
    /\ AppIdle
    /\ DBIdle
    /\ ModIdle
    /\ CFIdle
    /\ ARSIdle
    /\ merge_input \in MergeInputs
    /\ lastCall = NoCall

NextMerge == merge_recommendations

SpecMerge == InitMerge /\ [][NextMerge]_vars

----------------------------------------------------------------------------
(* AdvancedRecommendationSystem (ml_models.py) *)

MaxTraining == 3     \* interactions in a training log

TrainUsers == {1, 2}
TrainItems == {1, 2}
EngagementScores == {1, 2}
TrainCallerIds == {1, 2, 9}      \* 9 never occurs in a training log

TrainingInteractions ==
    [user_id : TrainUsers, content_id : TrainItems, engagement_score : EngagementScores]

\* seven users who all gave item 1 the same score
CrowdLog == [n \in 1..7 |-> [user_id |-> n, content_id |-> 1, engagement_score |-> 1]]

TrainingLogs ==
    UNION {[1..n -> TrainingInteractions] : n \in 0..MaxTraining} \cup {CrowdLog}

\* users = list(set([i['user_id'] ...])): the iteration order of a set of
\* small non-negative integers is ascending
UsersOf(log) == Ascending({log[n].user_id : n \in 1..Len(log)})

\* items = list(set([i['content_id'] ...]))
ItemsOf(log) == Ascending({log[n].content_id : n \in 1..Len(log)})

\* user_idx[user] / item_idx[item], counted from 1 here and from 0 in the code
Position(list, x) == CHOOSE n \in 1..Len(list) : list[n] = x

\* np.zeros((len(users), len(items)))
Zeros(n_users, n_items) == [u \in 1..n_users |-> [i \in 1..n_items |-> 0]]

\* a cell write that adds to what the cell holds
SetCellAccumulate(matrix, u_idx, i_idx, engagement_score) ==
    [matrix EXCEPT ![u_idx][i_idx] = @ + engagement_score]

\* interaction_matrix[u_idx][i_idx] = interaction['engagement_score']
SetCell(matrix, u_idx, i_idx, engagement_score) ==
    [matrix EXCEPT ![u_idx][i_idx] = engagement_score]

\* for interaction in interactions_data: the matrix after the first n interactions
RECURSIVE FillMatrix(_, _, _, _)
FillMatrix(log, users, items, n) ==
    IF n = 0 THEN Zeros(Len(users), Len(items))
    ELSE SetCell(FillMatrix(log, users, items, n - 1),
                 Position(users, log[n].user_id), Position(items, log[n].content_id),
                 log[n].engagement_score)

\* prepare_training_data: the three fields are assigned before the content
\* vectorizer is fitted; fit_transform raises on an empty corpus or an empty
\* vocabulary, and then trained keeps its value
prepare_training_data(content_fits) ==
    /\ LET users == UsersOf(training_data)
           items == ItemsOf(training_data)
       IN  recommender' =
               [trained |-> IF content_fits THEN TRUE ELSE recommender.trained,
                user_item_matrix |-> FillMatrix(training_data, users, items,
                                                Len(training_data)),
                user_idx |-> users,
                item_idx |-> items]
    /\ recs' = <<>>
    /\ lastCall' = [op |-> "prepare", content_fits |-> content_fits]
    /\ UNCHANGED <<training_data, posts_data, interactions_data, svd_model, trendVars,
                   modVars, mergeVars, answers,
                   appVars, dbVars>>

Dot(matrix, a, b) ==
    LET RECURSIVE Sum(_)
        Sum(i) == IF i = 0 THEN 0 ELSE Sum(i - 1) + matrix[a][i] * matrix[b][i]
    IN  Sum(Len(matrix[a]))

\* cosine_similarity(row t, row a) < cosine_similarity(row t, row b); the
\* weights are not negative, a row of zeros has similarity 0
SimLess(matrix, t, a, b) ==
    IF Dot(matrix, t, a) = 0 THEN Dot(matrix, t, b) > 0
    ELSE IF Dot(matrix, t, b) = 0 THEN FALSE
    ELSE Dot(matrix, t, a) * Dot(matrix, t, a) * Dot(matrix, b, b)
             < Dot(matrix, t, b) * Dot(matrix, t, b) * Dot(matrix, a, a)

NeighbourCount == 5

\* np.argsort(user_similarities)[::-1][1:6]: the row that sorts first is
\* dropped and the next five are the neighbours; NumPy's default sort does
\* not fix the order of equal similarities, so among equals any order is possible
SimilarUsers(matrix, t) ==
    LET all == 1..Len(matrix)
        first == {x \in all : \A y \in all : ~SimLess(matrix, t, x, y)}
    IN  UNION {
          {[dropped |-> d, similar_users |-> N] :
              N \in {M \in SUBSET (all \ {d}) :
                        /\ Cardinality(M) = Min(NeighbourCount, Len(matrix) - 1)
                        /\ \A v \in M : \A w \in all \ (M \cup {d}) :
                              ~SimLess(matrix, t, v, w)}}
          : d \in first}

\* the sum over the neighbours is positive: a neighbour with a positive
\* similarity has a weight on the item
PositiveScore(matrix, t, N, item_idx) ==
    \E v \in N : matrix[v][item_idx] > 0 /\ Dot(matrix, t, v) > 0

\* recommendations.sort(key=score, reverse=True) and [:n_recommendations]: the
\* items with a positive score in the order of their scores (numerical, any
\* order is possible), then the items with score 0 by index; the list holds
\* item indices, counted from 0
RankedItemIndices(matrix, t, N, n_recommendations) ==
    LET unseen == {i \in 1..Len(matrix[t]) : matrix[t][i] = 0}
        scored == {i \in unseen : PositiveScore(matrix, t, N, i)}
        rest == Ascending(unseen \ scored)
    IN  {[n \in 1..Min(n_recommendations, Len(head) + Len(rest)) |->
             (head \o rest)[n] - 1] :
            head \in {h \in [1..Cardinality(scored) -> scored] :
                         \A i, j \in 1..Cardinality(scored) : h[i] = h[j] => i = j}}

\* AdvancedRecommendationSystem.collaborative_filtering_recommendations
ars_collaborative_filtering_recommendations(user_id, n_recommendations) ==
    /\ IF ~recommender.trained \/ user_id \notin ToSet(recommender.user_idx)
       THEN /\ recs' = <<>>
            /\ lastCall' = [op |-> "neighbours", user_id |-> user_id, known |-> FALSE]
       ELSE LET matrix == recommender.user_item_matrix
                user_index == Position(recommender.user_idx, user_id)
            IN  \E c \in SimilarUsers(matrix, user_index) :
                    /\ recs' \in RankedItemIndices(matrix, user_index, c.similar_users,
                                                    n_recommendations)
                    /\ lastCall' = [op |-> "neighbours", user_id |-> user_id,
                                    known |-> TRUE, user_index |-> user_index,
                                    dropped |-> c.dropped,
                                    similar_users |-> c.similar_users]
    /\ UNCHANGED <<training_data, recommender, posts_data, interactions_data, svd_model,
                   trendVars, modVars, mergeVars, answers,
                   appVars, dbVars>>

InitARS ==
    /\ TrendIdle
    /\ ReplayIdle
    /\ AppIdle
    /\ DBIdle
    /\ ModIdle
    /\ CFIdle
    /\ MergeIdle
    /\ training_data \in TrainingLogs
    /\ recommender = AdvancedRecommendationSystem
    /\ lastCall = NoCall

NextARS ==
    \/ \E content_fits \in BOOLEAN : prepare_training_data(content_fits)
    \/ \E u \in TrainCallerIds, n \in 1..2 :
           ars_collaborative_filtering_recommendations(u, n)

SpecARS == InitARS /\ [][NextARS]_vars

----------------------------------------------------------------------------
(* UserBehaviorPredictor (app.py) *)

MaxActions == 5     \* update_user_activity calls per behaviour

ActivityUsers == {"u1"}
UnseenUser == "u9"
ActivityHours == {0, 9, 14, 18, 23}
default_peak_hours == <<9, 12, 18, 21>>

HasKey(dict, key) == key \in DOMAIN dict

\* dict[key] = value on a dictionary held as a function
WithKey(dict, key, value) ==
    [k \in DOMAIN dict \cup {key} |-> IF k = key THEN value ELSE dict[k]]

new_activity_pattern == [actions |-> <<>>, active_hours |-> <<>>]

HourIndex(active_hours, hour) ==
    IF \E i \in 1..Len(active_hours) : active_hours[i].hour = hour
    THEN CHOOSE i \in 1..Len(active_hours) : active_hours[i].hour = hour
    ELSE 0

\* active_hours[hour] = 0 on first sight (appended in dict order), then += 1
CountedHour(active_hours, hour) ==
    LET i == HourIndex(active_hours, hour)
    IN  IF i = 0 THEN Append(active_hours, [hour |-> hour, count |-> 1])
        ELSE [active_hours EXCEPT ![i].count = @ + 1]

UpdatedActivity(patterns, user_id, action_type, hour) ==
    LET old == IF HasKey(patterns, user_id) THEN patterns[user_id] ELSE new_activity_pattern
    IN  WithKey(patterns, user_id,
            [actions |-> Append(old.actions, [action |-> action_type, hour |-> hour]),
             active_hours |-> CountedHour(old.active_hours, hour)])

\* a sort that puts an hour before the hours of equal count recorded earlier
InsertByCountTiesFirst(sorted, e) ==
    LET after == {j \in 1..Len(sorted) : e.count < sorted[j].count}
        pos == IF after = {} THEN 0 ELSE CHOOSE j \in after : \A m \in after : m <= j
    IN  SubSeq(sorted, 1, pos) \o <<e>> \o SubSeq(sorted, pos + 1, Len(sorted))

\* sorted(hours.items(), key=lambda x: x[1], reverse=True): stable
InsertByCount(sorted, e) ==
    LET after == {j \in 1..Len(sorted) : e.count <= sorted[j].count}
        pos == IF after = {} THEN 0 ELSE CHOOSE j \in after : \A m \in after : m <= j
    IN  SubSeq(sorted, 1, pos) \o <<e>> \o SubSeq(sorted, pos + 1, Len(sorted))

RECURSIVE SortedByCount(_)
SortedByCount(active_hours) ==
    IF active_hours = <<>> THEN <<>>
    ELSE InsertByCount(SortedByCount(SubSeq(active_hours, 1, Len(active_hours) - 1)),
                       active_hours[Len(active_hours)])

PeakHours == 4

EngagementTime(patterns, user_id) ==
    IF ~HasKey(patterns, user_id) THEN default_peak_hours
    ELSE LET s == SortedByCount(patterns[user_id].active_hours)
         IN  [i \in 1..Min(PeakHours, Len(s)) |-> s[i].hour]

TotalActions ==
    LET RECURSIVE Sum(_)
        Sum(S) == IF S = {} THEN 0
                  ELSE LET u == CHOOSE x \in S : TRUE
                       IN  Len(user_activity_patterns[u].actions) + Sum(S \ {u})
    IN  Sum(DOMAIN user_activity_patterns)

update_user_activity(user_id, action_type, hour) ==
    /\ TotalActions < MaxActions
    /\ user_activity_patterns' =
           UpdatedActivity(user_activity_patterns, user_id, action_type, hour)
    /\ lastCall' = [op |-> "update_user_activity", user_id |-> user_id, hour |-> hour]
    /\ UNCHANGED <<users_db, posts_db, reels_db, user_preferences, answers, dbVars,
                   engineVars>>

predict_engagement_time(user_id) ==
    /\ recs' = EngagementTime(user_activity_patterns, user_id)
    /\ lastCall' = [op |-> "predict_engagement_time", user_id |-> user_id]
    /\ UNCHANGED <<posts_data, interactions_data, svd_model, trendVars, modVars, mergeVars,
                   arsVars, answers, appVars, dbVars>>

InitBehavior ==
    /\ TrendIdle
    /\ ReplayIdle
    /\ AppIdle
    /\ DBIdle
    /\ ModIdle
    /\ CFIdle
    /\ MergeIdle
    /\ ARSIdle
    /\ lastCall = NoCall

NextBehavior ==
    \/ \E u \in ActivityUsers, h \in ActivityHours : update_user_activity(u, "view", h)
    \/ \E u \in ActivityUsers \cup {UnseenUser} : predict_engagement_time(u)

SpecBehavior == InitBehavior /\ [][NextBehavior]_vars

----------------------------------------------------------------------------
(* ContentRecommendationSystem and the in-memory routes (app.py) *)

MaxScore == 1       \* profile creations and direct updates stop at this preference score
MaxAppActions == 2  \* post, reel and behaviour requests per behaviour

\* random.randint(100000, 999999) as a string, narrowed to a range where ids collide
IdRange == {"100000", "100001"}
\* the ids drawn for profiles: a second profile always collides with the first
ProfileIds == {"100000"}
ReelIds == {"100001"}
content_types ==
    <<"comedy", "music", "dance", "education", "sports", "food", "lifestyle", "tech">>
KnownTypes == {content_types[i] : i \in 1..Len(content_types)}
PostCategories == {"music", "gaming"}
ReelCategories == {"music"}
InterestLists == {<<"music", "comedy">>, <<"gaming">>}
ActionTypes == {"comment"}
DirectScores == {<<1, 2>>}

new_user_preferences == [c \in KnownTypes |-> <<0, 1>>]

\* an update that stores the score instead of adding it
UpdatedPreferenceOverwrite(prefs, user_id, content_type, engagement_score) ==
    LET entry == IF HasKey(prefs, user_id) THEN prefs[user_id] ELSE new_user_preferences
    IN  WithKey(prefs, user_id,
            IF content_type \in DOMAIN entry
            THEN [entry EXCEPT ![content_type] = engagement_score]
            ELSE entry)

\* ContentRecommendationSystem.update_user_preference
UpdatedPreference(prefs, user_id, content_type, engagement_score) ==
    LET entry == IF HasKey(prefs, user_id) THEN prefs[user_id] ELSE new_user_preferences
    IN  WithKey(prefs, user_id,
            IF content_type \in DOMAIN entry
            THEN [entry EXCEPT ![content_type] = RAdd(@, engagement_score)]
            ELSE entry)

RECURSIVE UpdatedPreferences(_, _, _, _)
UpdatedPreferences(prefs, user_id, interests, engagement_score) ==
    IF interests = <<>> THEN prefs
    ELSE UpdatedPreferences(UpdatedPreference(prefs, user_id, Head(interests), engagement_score),
                            user_id, Tail(interests), engagement_score)

trending_categories == {"music", "comedy", "dance", "lifestyle"}

\* the values get_recommendations can return: random.choices for a user without
\* preference entry, else the categories by score descending (stable, dict order)
get_recommendations(prefs, user_id, num_recommendations) ==
    IF ~HasKey(prefs, user_id)
    THEN [1..num_recommendations -> trending_categories]
    ELSE LET s == SortedByScore([i \in 1..Len(content_types) |->
                      [content_type |-> content_types[i],
                       score |-> prefs[user_id][content_types[i]]]])
         IN  {[i \in 1..Min(num_recommendations, Len(s)) |-> s[i].content_type]}

engagement_scores(action_type) ==
    CASE action_type = "like" -> <<3, 10>>
      [] action_type = "comment" -> <<1, 2>>
      [] action_type = "share" -> <<7, 10>>
      [] action_type = "view" -> <<1, 10>>
      [] OTHER -> <<1, 10>>

AppHour == now % 24

ScoresBelow(user_id, bound) ==
    HasKey(user_preferences, user_id) =>
        \A c \in KnownTypes : RLess(user_preferences[user_id][c], RInt(bound))

AppActions == TotalActions

Without(dict, key) == [k \in DOMAIN dict \ {key} |-> dict[k]]

update_user_preference(user_id, content_type, engagement_score) ==
    /\ ScoresBelow(user_id, MaxScore)
    /\ user_preferences' =
           UpdatedPreference(user_preferences, user_id, content_type, engagement_score)
    /\ lastCall' = [op |-> "update_user_preference", content_type |-> content_type,
                    status |-> 200]
    /\ UNCHANGED <<users_db, posts_db, reels_db, user_activity_patterns, answers, dbVars,
                   engineVars>>

\* POST /api/profile
create_profile(interests) ==
    \E user_id \in ProfileIds :
        /\ ScoresBelow(user_id, MaxScore)
        /\ users_db' = WithKey(users_db, user_id, [posts_count |-> 0])
        /\ user_preferences' =
               UpdatedPreferences(user_preferences, user_id, interests, <<1, 1>>)
        /\ lastCall' = [op |-> "POST /api/profile", status |-> 201]
        /\ UNCHANGED <<posts_db, reels_db, user_activity_patterns, answers, dbVars,
                       engineVars>>

\* PUT /api/profile
update_profile(user_id) ==
    /\ IF ~HasKey(users_db, user_id)
       THEN /\ lastCall' = [op |-> "PUT /api/profile", status |-> 404]
            /\ UNCHANGED users_db
       ELSE \* username, bio, preferences and updated_at are written: fields that
            \* no handler reads and the profile record here leaves out
            /\ users_db' = users_db
            /\ lastCall' = [op |-> "PUT /api/profile", status |-> 200]
    /\ UNCHANGED <<posts_db, reels_db, user_preferences, user_activity_patterns, answers,
                   dbVars, engineVars>>

\* DELETE /api/profile
delete_profile(user_id) ==
    /\ IF ~HasKey(users_db, user_id)
       THEN /\ lastCall' = [op |-> "DELETE /api/profile", status |-> 404]
            /\ UNCHANGED users_db
       ELSE /\ users_db' = Without(users_db, user_id)
            /\ lastCall' = [op |-> "DELETE /api/profile", status |-> 200]
    /\ UNCHANGED <<posts_db, reels_db, user_preferences, user_activity_patterns, answers,
                   dbVars, engineVars>>

\* POST /api/post
create_post_in_memory(user_id, category) ==
    IF ~HasKey(users_db, user_id)
    THEN /\ lastCall' = [op |-> "POST /api/post", status |-> 404]
         /\ UNCHANGED <<appVars, answers, dbVars, engineVars>>
    ELSE \E post_id \in IdRange :
        /\ AppActions < MaxAppActions
        /\ posts_db' = WithKey(posts_db, post_id, [user_id |-> user_id, category |-> category])
        /\ users_db' = [users_db EXCEPT ![user_id].posts_count = @ + 1]
        /\ user_activity_patterns' =
               UpdatedActivity(user_activity_patterns, user_id, "create_post", AppHour)
        /\ user_preferences' = UpdatedPreference(user_preferences, user_id, category, <<1, 2>>)
        /\ lastCall' = [op |-> "POST /api/post", status |-> 201]
        /\ UNCHANGED <<reels_db, answers, dbVars, engineVars>>

\* DELETE /api/post
delete_post(post_id, user_id) ==
    /\ IF ~HasKey(posts_db, post_id)
       THEN /\ lastCall' = [op |-> "DELETE /api/post", status |-> 404]
            /\ UNCHANGED <<posts_db, users_db>>
       ELSE IF posts_db[post_id].user_id # user_id
       THEN /\ lastCall' = [op |-> "DELETE /api/post", status |-> 403]
            /\ UNCHANGED <<posts_db, users_db>>
       ELSE /\ posts_db' = Without(posts_db, post_id)
            /\ IF HasKey(users_db, user_id)
               THEN /\ users_db' = [users_db EXCEPT ![user_id].posts_count = @ - 1]
                    /\ lastCall' = [op |-> "DELETE /api/post", status |-> 200]
               ELSE \* users_db[user_id] raises KeyError after the post is gone
                    /\ lastCall' = [op |-> "DELETE /api/post", status |-> 500]
                    /\ UNCHANGED users_db
    /\ UNCHANGED <<reels_db, user_preferences, user_activity_patterns, answers, dbVars,
                   engineVars>>

\* POST /api/reels
create_reel(user_id, category) ==
    IF ~HasKey(users_db, user_id)
    THEN /\ lastCall' = [op |-> "POST /api/reels", status |-> 404]
         /\ UNCHANGED <<appVars, answers, dbVars, engineVars>>
    ELSE \E reel_id \in ReelIds :
        /\ AppActions < MaxAppActions
        /\ reels_db' = WithKey(reels_db, reel_id, [user_id |-> user_id, category |-> category])
        /\ user_activity_patterns' =
               UpdatedActivity(user_activity_patterns, user_id, "create_reel", AppHour)
        /\ lastCall' = [op |-> "POST /api/reels", status |-> 201]
        /\ UNCHANGED <<users_db, posts_db, user_preferences, answers, dbVars, engineVars>>

\* POST /api/user-behavior
record_user_behavior(user_id, action_type, content_id) ==
    /\ AppActions < MaxAppActions
    /\ user_activity_patterns' =
           UpdatedActivity(user_activity_patterns, user_id, action_type, AppHour)
    /\ user_preferences' =
           IF HasKey(posts_db, content_id)
           THEN UpdatedPreference(user_preferences, user_id, posts_db[content_id].category,
                                  engagement_scores(action_type))
           ELSE IF HasKey(reels_db, content_id)
           THEN UpdatedPreference(user_preferences, user_id, reels_db[content_id].category,
                                  engagement_scores(action_type))
           ELSE user_preferences
    /\ lastCall' = [op |-> "POST /api/user-behavior", status |-> 200]
    /\ UNCHANGED <<users_db, posts_db, reels_db, answers, dbVars, engineVars>>

InitApp ==
    /\ TrendIdle
    /\ ReplayIdle
    /\ AppIdle
    /\ DBIdle
    /\ ModIdle
    /\ CFIdle
    /\ MergeIdle
    /\ ARSIdle
    /\ lastCall = NoCall

NextApp ==
    \/ \E u \in IdRange, c \in PostCategories, s \in DirectScores :
           update_user_preference(u, c, s)
    \/ \E interests \in InterestLists : create_profile(interests)
    \/ \E u \in IdRange : update_profile(u)
    \/ \E u \in IdRange : delete_profile(u)
    \/ \E u \in IdRange, c \in PostCategories : create_post_in_memory(u, c)
    \/ \E p \in IdRange, u \in IdRange : delete_post(p, u)
    \/ \E u \in IdRange, c \in ReelCategories : create_reel(u, c)
    \/ \E u \in ProfileIds, a \in ActionTypes, c \in IdRange : record_user_behavior(u, a, c)

SpecApp == InitApp /\ [][NextApp]_vars

----------------------------------------------------------------------------
(* One RecommendationEngine serving a sequence of calls, some of them repeated *)

MaxReplays == 3     \* ranking calls per behaviour

\* post 1 is new at hour 0, post 2 ten days old: engagement 3 and 2 at hour 0
ReplayPosts ==
    <<[id |-> 1, likes_count |-> 3, comments_count |-> 0, created_at |-> 0,
       engagement_score |-> "unset"],
      [id |-> 2, likes_count |-> 2, comments_count |-> 1, created_at |-> -240,
       engagement_score |-> "unset"]>>

ReplayLogs ==
    {<<>>,
     <<[user_id |-> 1, post_id |-> 1, rating |-> 1]>>,
     <<[user_id |-> 1, post_id |-> 1, rating |-> 1],
       [user_id |-> 2, post_id |-> 2, rating |-> 1]>>}

\* the hours at which a call can be made: at once, or thirty days later
ReplayClocks == {0, 720}

\* the floating point computation is a function of its operands: a call that repeats
\* an earlier similarity computation on the same model obtains the same order
SameComputation(a, user_id, log, k, r) ==
    (/\ a.user_id = user_id
     /\ a.interactions_data = log
     /\ a.num_recommendations = k
     /\ a.model = r.model
     /\ a.path = "similarity"
     /\ r.path = "similarity") => a.recs = r.recs

replayed_collaborative_filtering(user_id, log, k) ==
    /\ Len(answers) < MaxReplays
    /\ \E r \in CollabResults(user_id, ReplayPosts, log, k, svd_model) :
        /\ \A i \in 1..Len(answers) : SameComputation(answers[i], user_id, log, k, r)
        /\ recs' = r.recs
        /\ posts_data' = r.posts
        /\ interactions_data' = log
        /\ svd_model' = r.model
        /\ lastCall' = [op |-> "collab", user_id |-> user_id, k |-> k, path |-> r.path]
        /\ answers' = Append(answers,
               [user_id |-> user_id, posts_data |-> ReplayPosts, interactions_data |-> log,
                num_recommendations |-> k, model |-> r.model, path |-> r.path,
                time |-> now, recs |-> r.recs])
    /\ UNCHANGED <<trendVars, modVars, mergeVars, arsVars, appVars, dbVars>>

TimePasses ==
    /\ \E t \in ReplayClocks : t > now /\ now' = t
    /\ UNCHANGED <<hashtag_popularity, trending, recorded, reads, lastCall, modVars, cfVars,
                   mergeVars, arsVars, answers, appVars, dbVars>>

InitReplay ==
    /\ TrendIdle
    /\ ReplayIdle
    /\ AppIdle
    /\ DBIdle
    /\ ModIdle
    /\ CFIdle
    /\ MergeIdle
    /\ ARSIdle
    /\ lastCall = NoCall

NextReplay ==
    \/ \E u \in CallerIds, log \in ReplayLogs, k \in 1..MaxK :
           replayed_collaborative_filtering(u, log, k)
    \/ TimePasses

SpecReplay == InitReplay /\ [][NextReplay]_vars

----------------------------------------------------------------------------
(* update_hashtag_trend and update_user_preference called from several threads:   *)
(* each call is a sequence of dictionary reads and writes, and a thread switch     *)
(* can fall between any two of them                                                *)

MaxThreads == 2     \* calls per behaviour

RaceUser == "100000"
RaceType == "music"
RaceScores == {<<1, 2>>, <<3, 10>>}

\* the calls a thread can make
RaceCalls ==
    {[op |-> "update_hashtag_trend", key |-> h, delta |-> RInt(d)] :
        h \in Hashtags, d \in Deltas}
    \cup {[op |-> "update_user_preference", key |-> RaceUser, delta |-> s] : s \in RaceScores}

Active(t) == t \in DOMAIN threads /\ threads[t].pc # "done"

\* self.hashtag_popularity[hashtag] = {'score': 0.0, 'last_updated': timestamp, 'mentions': 0}
StoreZeroEntry(pop, hashtag, timestamp) ==
    LET zero == [hashtag |-> hashtag, score |-> <<0, 1>>, last_updated |-> timestamp,
                 mentions |-> 0]
    IN  IF IndexOf(hashtag, pop) = 0 THEN Append(pop, zero)
        ELSE [pop EXCEPT ![IndexOf(hashtag, pop)] = zero]

\* a write that drops the increment
StoredMentionsSame(read) == read

\* ['mentions'] += 1: the value stored for the value read
StoredMentions(read) == read + 1

\* score * decay + engagement_score, respectively score + engagement_score
StoredScore(read, decay, delta) == RAdd(RMul(read, decay), delta)

Step(t, pc, local) == [threads EXCEPT ![t].pc = pc, ![t].local = local]

\* a thread enters one of the two functions; timestamp = datetime.now()
BeginCall(call) ==
    LET t == Cardinality(DOMAIN threads) + 1
    IN  /\ t <= MaxThreads
        /\ threads' = WithKey(threads, t,
               [op |-> call.op, key |-> call.key, delta |-> call.delta, timestamp |-> now,
                pc |-> "check", local |-> <<0, 1>>,
                serial |-> \A o \in DOMAIN threads : ~Active(o)])
        /\ UNCHANGED <<trendVars, lastCall, modVars, cfVars, mergeVars, arsVars, answers,
                       appVars, db>>

\* if hashtag not in self.hashtag_popularity / if user_id not in self.user_preferences
CheckKey(t) ==
    /\ Active(t)
    /\ threads[t].pc = "check"
    /\ LET present == IF threads[t].op = "update_hashtag_trend"
                      THEN IndexOf(threads[t].key, hashtag_popularity) # 0
                      ELSE HasKey(user_preferences, threads[t].key)
       IN  threads' = Step(t, IF present THEN "read" ELSE "insert", threads[t].local)
    /\ UNCHANGED <<trendVars, lastCall, modVars, cfVars, mergeVars, arsVars, answers,
                   appVars, db>>

\* the zero entry is stored, over whatever another thread stored meanwhile
InsertEntry(t) ==
    /\ Active(t)
    /\ threads[t].pc = "insert"
    /\ threads' = Step(t, "read", threads[t].local)
    /\ IF threads[t].op = "update_hashtag_trend"
       THEN /\ hashtag_popularity' =
                   StoreZeroEntry(hashtag_popularity, threads[t].key, threads[t].timestamp)
            /\ UNCHANGED user_preferences
       ELSE /\ user_preferences' =
                   WithKey(user_preferences, threads[t].key, new_user_preferences)
            /\ UNCHANGED hashtag_popularity
    /\ UNCHANGED <<now, trending, recorded, reads, lastCall, modVars, cfVars, mergeVars,
                   arsVars, answers, users_db, posts_db, reels_db, user_activity_patterns, db>>

\* the right-hand side is evaluated: the stored score, decayed, plus the delta
ReadScore(t) ==
    /\ Active(t)
    /\ threads[t].pc = "read"
    /\ threads' =
           Step(t, "write",
                IF threads[t].op = "update_hashtag_trend"
                THEN LET e == hashtag_popularity[IndexOf(threads[t].key, hashtag_popularity)]
                     IN  StoredScore(e.score, Decay(threads[t].timestamp - e.last_updated),
                                     threads[t].delta)
                ELSE StoredScore(user_preferences[threads[t].key][RaceType], <<1, 1>>,
                                 threads[t].delta))
    /\ UNCHANGED <<trendVars, lastCall, modVars, cfVars, mergeVars, arsVars, answers,
                   appVars, db>>

\* the value computed is stored; update_hashtag_trend stamps last_updated as well
WriteScore(t) ==
    /\ Active(t)
    /\ threads[t].pc = "write"
    /\ IF threads[t].op = "update_hashtag_trend"
       THEN /\ hashtag_popularity' =
                   [hashtag_popularity EXCEPT
                       ![IndexOf(threads[t].key, hashtag_popularity)].score = threads[t].local,
                       ![IndexOf(threads[t].key, hashtag_popularity)].last_updated =
                           threads[t].timestamp]
            /\ threads' = Step(t, "read_mentions", threads[t].local)
            /\ UNCHANGED user_preferences
       ELSE /\ user_preferences' =
                   [user_preferences EXCEPT ![threads[t].key][RaceType] = threads[t].local]
            /\ threads' = Step(t, "done", threads[t].local)
            /\ UNCHANGED hashtag_popularity
    /\ UNCHANGED <<now, trending, recorded, reads, lastCall, modVars, cfVars, mergeVars,
                   arsVars, answers, users_db, posts_db, reels_db, user_activity_patterns, db>>

\* ['mentions'] += 1, first half: the stored count is read
ReadMentions(t) ==
    /\ Active(t)
    /\ threads[t].pc = "read_mentions"
    /\ threads' = Step(t, "write_mentions",
           hashtag_popularity[IndexOf(threads[t].key, hashtag_popularity)].mentions)
    /\ UNCHANGED <<trendVars, lastCall, modVars, cfVars, mergeVars, arsVars, answers,
                   appVars, db>>

\* ['mentions'] += 1, second half: the count read, plus one, is stored
WriteMentions(t) ==
    /\ Active(t)
    /\ threads[t].pc = "write_mentions"
    /\ hashtag_popularity' =
           [hashtag_popularity EXCEPT
               ![IndexOf(threads[t].key, hashtag_popularity)].mentions =
                   StoredMentions(threads[t].local)]
    /\ threads' = Step(t, "done", threads[t].local)
    /\ UNCHANGED <<now, trending, recorded, reads, lastCall, modVars, cfVars, mergeVars,
                   arsVars, answers, appVars, db>>

InitRace ==
    /\ TrendIdle
    /\ ReplayIdle
    /\ AppIdle
    /\ DBIdle
    /\ ModIdle
    /\ CFIdle
    /\ MergeIdle
    /\ ARSIdle
    /\ lastCall = NoCall

NextRace ==
    \/ \E call \in RaceCalls : BeginCall(call)
    \/ \E t \in 1..MaxThreads :
           \/ CheckKey(t)
           \/ InsertEntry(t)
           \/ ReadScore(t)
           \/ WriteScore(t)
           \/ ReadMentions(t)
           \/ WriteMentions(t)

SpecRace == InitRace /\ [][NextRace]_vars

----------------------------------------------------------------------------
(* update_hashtag_trend called with explicit timestamps, in any order *)

\* called with a timestamp: it need not be later than the entry's last_updated
update_hashtag_trend_at(hashtag, engagement_score, timestamp) ==
    /\ Len(recorded) < MaxRecords
    /\ FitsPrecision(hashtag_popularity, timestamp)
    /\ hashtag_popularity' =
           UpdatedPopularity(hashtag_popularity, hashtag, engagement_score, timestamp)
    /\ recorded' = Append(recorded,
                          [hashtag |-> hashtag, delta |-> engagement_score, at |-> timestamp])
    /\ lastCall' = [op |-> "record", hashtag |-> hashtag, delta |-> engagement_score,
                    at |-> timestamp]
    /\ UNCHANGED <<now, trending, reads, modVars, cfVars, mergeVars, arsVars, answers,
                   appVars, dbVars>>

InitBackfill ==
    /\ TrendIdle
    /\ ReplayIdle
    /\ AppIdle
    /\ DBIdle
    /\ ModIdle
    /\ CFIdle
    /\ MergeIdle
    /\ ARSIdle
    /\ lastCall = NoCall

NextBackfill ==
    \E h \in Hashtags, d \in Deltas \cup {0}, t \in 0..MaxTime : update_hashtag_trend_at(h, d, t)

SpecBackfill == InitBackfill /\ [][NextBackfill]_vars

----------------------------------------------------------------------------
(* create_post and add_comment (routes/posts.py): the moderation gate *)

MaxRows == 2        \* posts and comments persisted per behaviour

caption_limit == 2200
comment_limit == 500

Accounts == {1, 2}
ImageUrls == {"", "a.jpg"}

\* request texts: inappropriate ones, and acceptable ones of either sentiment
RouteInputs ==
    {input \in SessionInputs :
        input.kind = "str" =>
            /\ input.sentiment # "unavailable"
            /\ input.sentiment = "negative" => input.text = <<"o", "k">>}

EmptyCaption == [kind |-> "str", text |-> <<>>, sentiment |-> "not_negative"]
CaptionInputs == RouteInputs \cup {EmptyCaption, [kind |-> "None"]}
CommentInputs ==
    RouteInputs
        \cup {[kind |-> "str", text |-> <<" ", "o", "k", " ">>, sentiment |-> "negative"],
              [kind |-> "str", text |-> <<" ">>, sentiment |-> "not_negative"]}

RECURSIVE StripLeft(_)
StripLeft(text) ==
    IF text # <<>> /\ IsSpace(Head(text)) THEN StripLeft(Tail(text)) ELSE text

RECURSIVE StripRight(_)
StripRight(text) ==
    IF text # <<>> /\ IsSpace(text[Len(text)])
    THEN StripRight(SubSeq(text, 1, Len(text) - 1))
    ELSE text

\* str.strip()
Strip(text) == StripRight(StripLeft(text))

\* text[:limit]
Truncated(text, limit) == SubSeq(text, 1, Min(limit, Len(text)))

\* a gate that refuses only what the moderator would block
RejectedWhenBlocked(moderation_result) == moderation_result.suggested_action = "block"

\* if not moderation_result['is_appropriate']
Rejected(moderation_result) == ~moderation_result.is_appropriate

Rows == Len(db.posts) + Len(db.comments)

Answer(op, status, input) == [op |-> op, status |-> status, input |-> input]

\* POST /api/posts/ of an authenticated user
create_post(current_user_id, caption, image_url) ==
    /\ IF image_url = ""
       THEN /\ lastCall' = Answer("create_post", 400, caption)
            /\ UNCHANGED db
       ELSE IF ~Falsy(caption) /\ Rejected(ModerateText(caption))
       THEN /\ lastCall' = Answer("create_post", 400, caption)
            /\ UNCHANGED db
       ELSE IF caption.kind # "str"
       THEN \* caption[:2200] raises TypeError: rollback
            /\ lastCall' = Answer("create_post", 500, caption)
            /\ UNCHANGED db
       ELSE /\ Rows < MaxRows
            /\ db' = [db EXCEPT !.posts =
                         Append(@, [user_id |-> current_user_id,
                                    caption |-> Truncated(caption.text, caption_limit),
                                    moderated |-> caption])]
            /\ lastCall' = Answer("create_post", 201, caption)
    /\ UNCHANGED <<threads, engineVars, answers, appVars>>

\* POST /api/posts/<post_id>/comments of an authenticated user, without parent_id
add_comment(current_user_id, post_id, data_text) ==
    /\ IF data_text.kind # "str"
       THEN \* .strip() raises AttributeError: rollback
            /\ lastCall' = Answer("add_comment", 500, data_text)
            /\ UNCHANGED db
       ELSE LET text == [data_text EXCEPT !.text = Strip(@)]
            IN  IF text.text = <<>>
                THEN /\ lastCall' = Answer("add_comment", 400, text)
                     /\ UNCHANGED db
                ELSE IF post_id \notin 1..Len(db.posts)
                THEN /\ lastCall' = Answer("add_comment", 404, text)
                     /\ UNCHANGED db
                ELSE IF Rejected(ModerateText(text))
                THEN /\ lastCall' = Answer("add_comment", 400, text)
                     /\ UNCHANGED db
                ELSE /\ Rows < MaxRows
                     /\ db' = [db EXCEPT
                            !.comments =
                                Append(@, [user_id |-> current_user_id, post_id |-> post_id,
                                           text |-> Truncated(text.text, comment_limit),
                                           moderated |-> text]),
                            !.notifications =
                                IF db.posts[post_id].user_id # current_user_id
                                THEN @ + 1 ELSE @]
                     /\ lastCall' = Answer("add_comment", 201, text)
    /\ UNCHANGED <<threads, engineVars, answers, appVars>>

InitPosts ==
    /\ TrendIdle
    /\ ReplayIdle
    /\ AppIdle
    /\ DBIdle
    /\ ModIdle
    /\ CFIdle
    /\ MergeIdle
    /\ ARSIdle
    /\ lastCall = NoCall

NextPosts ==
    \/ \E u \in Accounts, caption \in CaptionInputs, image_url \in ImageUrls :
           create_post(u, caption, image_url)
    \/ \E u \in Accounts, p \in 1..MaxRows, text \in CommentInputs : add_comment(u, p, text)

SpecPosts == InitPosts /\ [][NextPosts]_vars

----------------------------------------------------------------------------
(* like_post (routes/posts.py) served by concurrent requests; the Like
   table of models.py with its unique constraint on (user_id, post_id) *)

MaxLikeRequests == 3    \* like requests per behaviour

LikePostIds == {1, 2}

\* the post every like request of a behaviour is about
LikedPost == [user_id |-> 1, caption |-> <<>>, moderated |-> EmptyCaption]

\* Like.query.filter_by(user_id=..., post_id=...)
LikesOf(user_id, post_id) ==
    {like \in db.likes : like.user_id = user_id /\ like.post_id = post_id}

\* post.get_likes_count()
get_likes_count(likes, post_id) == Cardinality({like \in likes : like.post_id = post_id})

\* the INSERT is refused when it would break unique_user_post_like
ViolatesUniqueLike(user_id, post_id) == LikesOf(user_id, post_id) # {}

InRequest(t, pc) == t \in DOMAIN threads /\ threads[t].op = "like_post" /\ threads[t].pc = pc

Answered(t, status, action, likes) ==
    [threads EXCEPT ![t] =
        [@ EXCEPT !.pc = "done", !.status = status, !.action = action,
                  !.delta = get_likes_count(likes, threads[t].post_id)
                                - get_likes_count(db.likes, threads[t].post_id)]]

\* the request arrives: Post.query.filter_by(id=post_id, is_active=True).first()
BeginLike(current_user_id, post_id) ==
    LET t == Cardinality(DOMAIN threads) + 1
        request == [op |-> "like_post", user_id |-> current_user_id, post_id |-> post_id,
                    pc |-> "check", existing_like |-> 0, status |-> 0,
                    action |-> "like", delta |-> 0]
    IN  /\ t <= MaxLikeRequests
        /\ threads' = WithKey(threads, t,
               IF post_id \in 1..Len(db.posts)
               THEN request
               ELSE [request EXCEPT !.pc = "done", !.status = 404])
        /\ UNCHANGED <<db, lastCall, engineVars, answers, appVars>>

\* existing_like = Like.query.filter_by(...).first(); 0 stands for None
CheckLike(t) ==
    /\ InRequest(t, "check")
    /\ LET found == LikesOf(threads[t].user_id, threads[t].post_id)
       IN  \E id \in IF found = {} THEN {0} ELSE {like.id : like \in found} :
               threads' = [threads EXCEPT ![t] = [@ EXCEPT !.pc = "commit",
                                                           !.existing_like = id]]
    /\ UNCHANGED <<db, lastCall, engineVars, answers, appVars>>

\* db.session.add(new_like), the notification, db.session.commit()
CommitLike(t) ==
    /\ InRequest(t, "commit")
    /\ threads[t].existing_like = 0
    /\ LET user_id == threads[t].user_id
           post_id == threads[t].post_id
           likes == db.likes \cup {[id |-> db.like_seq + 1, user_id |-> user_id,
                                    post_id |-> post_id]}
       IN  IF ViolatesUniqueLike(user_id, post_id)
           THEN \* IntegrityError: rollback
                /\ threads' = Answered(t, 500, "liked", db.likes)
                /\ UNCHANGED db
           ELSE /\ db' = [db EXCEPT !.likes = likes,
                                    !.like_seq = @ + 1,
                                    !.notifications =
                                        IF db.posts[post_id].user_id # user_id
                                        THEN @ + 1 ELSE @]
                /\ threads' = Answered(t, 200, "liked", likes)
    /\ UNCHANGED <<lastCall, engineVars, answers, appVars>>

\* db.session.delete(existing_like), db.session.commit()
CommitUnlike(t) ==
    /\ InRequest(t, "commit")
    /\ threads[t].existing_like # 0
    /\ LET likes == {like \in db.likes : like.id # threads[t].existing_like}
       IN  IF likes # db.likes
           THEN /\ db' = [db EXCEPT !.likes = likes]
                /\ threads' = Answered(t, 200, "unliked", likes)
           ELSE \* the row is gone already: the DELETE matches no row, which
                \* the session either warns about or raises as StaleDataError
                /\ \E status \in {200, 500} :
                       threads' = Answered(t, status, "unliked", db.likes)
                /\ UNCHANGED db
    /\ UNCHANGED <<lastCall, engineVars, answers, appVars>>

InitLike ==
    /\ TrendIdle
    /\ ReplayIdle
    /\ AppIdle
    /\ db = [posts |-> <<LikedPost>>, comments |-> <<>>, likes |-> {}, notifications |-> 0,
             like_seq |-> 0]
    /\ threads = EmptyDict
    /\ ModIdle
    /\ CFIdle
    /\ MergeIdle
    /\ ARSIdle
    /\ lastCall = NoCall

NextLike ==
    \/ \E u \in Accounts, p \in LikePostIds : BeginLike(u, p)
    \/ \E t \in 1..MaxLikeRequests : CheckLike(t)
    \/ \E t \in 1..MaxLikeRequests : CommitLike(t)
    \/ \E t \in 1..MaxLikeRequests : CommitUnlike(t)

SpecLike == InitLike /\ [][NextLike]_vars

----------------------------------------------------------------------------
(* Properties of the trend scorer *)

ScoreOf(pop, hashtag) ==
    IF IndexOf(hashtag, pop) = 0 THEN <<0, 1>> ELSE pop[IndexOf(hashtag, pop)].score

MentionsOf(pop, hashtag) ==
    IF IndexOf(hashtag, pop) = 0 THEN 0 ELSE pop[IndexOf(hashtag, pop)].mentions

LastUpdatedOf(pop, hashtag, default) ==
    IF IndexOf(hashtag, pop) = 0 THEN default ELSE pop[IndexOf(hashtag, pop)].last_updated

IsRecordStep == Len(recorded') = Len(recorded) + 1

\* C4: a record(key, delta, now) step sets the key's score to
\* previous score * 0.95^h + delta (h = hours since last_updated, previous
\* score 0 for a new key), sets last_updated to now and adds exactly 1 to
\* mentions; with h = 0 the new score is previous + delta, and recording 10
\* and then 5 one hour later gives 14.5.
C4_RecordDecaysThenAdds ==
    [][IsRecordStep =>
        LET h == lastCall'.hashtag
            d == lastCall'.delta
            prev == ScoreOf(hashtag_popularity, h)
            hours == now - LastUpdatedOf(hashtag_popularity, h, now)
            e == hashtag_popularity'[IndexOf(h, hashtag_popularity')]
        IN  /\ e.score = RAdd(RMul(prev, <<IPow(19, hours), IPow(20, hours)>>), <<d, 1>>)
            /\ e.last_updated = now
            /\ e.mentions = MentionsOf(hashtag_popularity, h) + 1
            /\ (hours = 0 => e.score = RAdd(prev, <<d, 1>>))
            /\ ((/\ Len(recorded') = 2 /\ reads = 0
                 /\ recorded'[1].hashtag = h /\ recorded'[1].delta = 10
                 /\ recorded'[2].delta = 5 /\ recorded'[2].at = recorded'[1].at + 1)
                => e.score = <<29, 2>>)
    ]_vars

C4_Witness ==
    /\ lastCall.op = "record"
    /\ Len(recorded) = 2 /\ reads = 0
    /\ recorded[1] = [hashtag |-> "music", delta |-> 10, at |-> 0]
    /\ recorded[2] = [hashtag |-> "music", delta |-> 5, at |-> 1]
    /\ ScoreOf(hashtag_popularity, "music") = <<29, 2>>
    /\ MentionsOf(hashtag_popularity, "music") = 2

\* sum over the record calls made for a hashtag of delta * 0.95^(hours from the call to t)
RECURSIVE IdealScore(_, _, _)
IdealScore(log, hashtag, t) ==
    IF log = <<>> THEN <<0, 1>>
    ELSE LET r == log[Len(log)]
             rest == IdealScore(SubSeq(log, 1, Len(log) - 1), hashtag, t)
         IN  IF r.hashtag = hashtag
             THEN RAdd(rest, RMul(<<r.delta, 1>>, <<IPow(19, t - r.at), IPow(20, t - r.at)>>))
             ELSE rest

\* C5: every score that top reports at time now equals the sum over the
\* record calls for that key of delta * 0.95^(hours elapsed since the call):
\* decay is applied exactly once to every score that is read.
C5_DecayAppliedExactlyOnce ==
    lastCall.op = "top" =>
        \A i \in 1..Len(trending) :
            trending[i].score = IdealScore(recorded, trending[i].hashtag, lastCall.at)

\* C6 as stated: for a limit >= 0, at most limit entries, by score descending, equal scores by
\* more mentions first, equal score and mentions by key.
C6_TiesByMentionsThenKey ==
    (lastCall.op = "top" /\ lastCall.limit >= 0) =>
        /\ Len(trending) <= lastCall.limit
        /\ \A i, j \in 1..Len(trending) : i < j =>
              \/ RLess(trending[j].score, trending[i].score)
              \/ /\ trending[j].score = trending[i].score
                 /\ \/ trending[i].mentions > trending[j].mentions
                    \/ /\ trending[i].mentions = trending[j].mentions
                       /\ KeyRank(trending[i].hashtag) < KeyRank(trending[j].hashtag)

\* C6 amended: for limit >= 0 top returns min(limit, number of keys) entries
\* ordered by reported score descending, and entries with equal score appear
\* in the order in which their keys were first recorded.
C6_TiesByInsertionOrder ==
    (lastCall.op = "top" /\ lastCall.limit >= 0) =>
        /\ Len(trending) = Min(lastCall.limit, Len(hashtag_popularity))
        /\ \A i \in 1..Len(trending) :
              /\ IndexOf(trending[i].hashtag, hashtag_popularity) # 0
              /\ trending[i].score = ScoreOf(hashtag_popularity, trending[i].hashtag)
              /\ trending[i].mentions = MentionsOf(hashtag_popularity, trending[i].hashtag)
        /\ \A i, j \in 1..Len(trending) : i < j =>
              \/ RLess(trending[j].score, trending[i].score)
              \/ /\ trending[j].score = trending[i].score
                 /\ IndexOf(trending[i].hashtag, hashtag_popularity)
                        < IndexOf(trending[j].hashtag, hashtag_popularity)
        /\ \A k \in 1..Len(hashtag_popularity) :
              (\A i \in 1..Len(trending) : trending[i].hashtag # hashtag_popularity[k].hashtag)
                  => \A i \in 1..Len(trending) :
                        RLeq(hashtag_popularity[k].score, trending[i].score)

\* two keys with equal score, the later-recorded one with more mentions and
\* the smaller key, are reported in recording order
C6_Witness ==
    /\ lastCall.op = "top" /\ lastCall.limit = 2
    /\ Len(trending) = 2
    /\ trending[1].hashtag = "music" /\ trending[2].hashtag = "art"
    /\ trending[1].score = trending[2].score
    /\ trending[1].mentions = 1 /\ trending[2].mentions = 2

----------------------------------------------------------------------------
(* Properties of the content moderator *)

Returned == verdict # NoVerdict

Has(issue) == \E i \in 1..Len(verdict.issues) : verdict.issues[i] = issue

\* C7 as stated: for every text, is_appropriate is true exactly when the
\* issues collection is empty.
C7_AppropriateIffNoIssues ==
    (Returned /\ modInput.kind = "str") =>
        (verdict.is_appropriate <=> verdict.issues = <<>>)

\* C7 amended: is_appropriate is false exactly when inappropriate_language
\* or spam is among the issues; negative_sentiment alone leaves it true.
C7_AppropriateIffNoKeywordNoSpam ==
    Returned =>
        /\ verdict.is_appropriate <=> ~(Has("inappropriate_language") \/ Has("spam"))
        /\ verdict.issues = <<"negative_sentiment">> =>
              verdict.is_appropriate /\ verdict.suggested_action = "approve"

C7_Witness ==
    /\ Returned
    /\ modInput.kind = "str" /\ modInput.sentiment = "negative"
    /\ verdict.issues = <<"negative_sentiment">>
    /\ verdict.is_appropriate

\* the call failed: the argument is truthy and has no lower()
EvaluationFailed == ~Falsy(modInput) /\ modInput.kind # "str"

ActionFollowsConfidence ==
    /\ verdict.is_appropriate => verdict.suggested_action = "approve"
    /\ ~verdict.is_appropriate =>
          /\ RLess(<<7, 10>>, verdict.confidence) => verdict.suggested_action = "block"
          /\ RLeq(verdict.confidence, <<7, 10>>) => verdict.suggested_action = "review"

\* C8 as stated: every verdict has approve when is_appropriate, and otherwise
\* block when confidence > 0.7 and review when confidence <= 0.7.
C8_ActionFollowsConfidenceAlways ==
    Returned => ActionFollowsConfidence

\* C8 amended: the rule holds for every verdict of a call that did not fail;
\* a failed evaluation returns is_appropriate = true with review.
C8_ActionFollowsConfidenceUnlessFailed ==
    Returned =>
        /\ ~EvaluationFailed => ActionFollowsConfidence
        /\ EvaluationFailed =>
              verdict.is_appropriate /\ verdict.suggested_action = "review"

C8_Witness ==
    /\ Returned
    /\ ~verdict.is_appropriate
    /\ verdict.confidence = <<18, 25>>
    /\ verdict.suggested_action = "block"

ExampleSpamText ==
    <<"T", "h", "i", "s", " ", "i", "s", " ", "a", "m", "a", "z", "i", "n", "g", ",", " ", "b", "u", "y", " ", "n", "o", "w", " ", "u", "r", "g", "e", "n", "t", " ", "o", "f", "f", "e", "r", "!", "!", "!">>

\* C9: whenever the spam flag is raised the verdict is not appropriate, has
\* confidence exactly 0.7 and action review, whatever else was flagged; the
\* example text raises the spam flag.
C9_SpamMeansReviewAtPointSeven ==
    Returned =>
        /\ Has("spam") =>
              /\ ~verdict.is_appropriate
              /\ verdict.confidence = <<7, 10>>
              /\ verdict.suggested_action = "review"
        /\ (modInput.kind = "str" /\ modInput.text = ExampleSpamText) => Has("spam")

C9_Witness ==
    /\ Returned
    /\ modInput.kind = "str"
    /\ verdict.issues = <<"inappropriate_language", "negative_sentiment", "spam">>
    /\ verdict.suggested_action = "review"

\* number of whitespace-separated tokens: the positions where a token starts
TokenCount(text) ==
    Cardinality({i \in 1..Len(text) :
                    ~IsSpace(text[i]) /\ (i = 1 \/ IsSpace(text[i - 1]))})

UniqueTokenCount(text) == Cardinality(ToSet(Split(Lower(text))))

\* C10: the spam flag is raised exactly when a promotional pattern matches or
\* the text has more than 5 tokens and token count / unique token count > 3;
\* 5 or fewer tokens, or a ratio of exactly 3, do not raise it.
C10_SpamIffPatternOrRepetition ==
    (Returned /\ modInput.kind = "str" /\ modInput.text # <<>>) =>
        LET n == TokenCount(modInput.text)
            u == UniqueTokenCount(modInput.text)
        IN  /\ Has("spam") <=>
                  \/ MatchesSpamPattern(modInput.text)
                  \/ (n > 5 /\ n > 3 * u)
            /\ (~MatchesSpamPattern(modInput.text) /\ (n <= 5 \/ n = 3 * u))
                  => ~Has("spam")

\* six tokens, one unique, no promotional pattern: flagged by repetition alone
C10_Witness ==
    /\ Returned
    /\ modInput.kind = "str"
    /\ ~MatchesSpamPattern(modInput.text)
    /\ TokenCount(modInput.text) = 6
    /\ UniqueTokenCount(modInput.text) = 1
    /\ Has("spam")

\* the text contains a word of the banned list, whatever its case
ContainsKeyword(text) ==
    \E k \in inappropriate_keywords :
        \E i \in 1..Len(text) :
            /\ i + Len(k) - 1 <= Len(text)
            /\ \A m \in 1..Len(k) : LowerChar(text[i + m - 1]) = k[m]

\* C11: a text whose lowercased form contains a banned keyword gets
\* inappropriate_language among the issues and is_appropriate false; when
\* this is the only flag the confidence is 0.8 and the action is block.
C11_KeywordBlocks ==
    (Returned /\ modInput.kind = "str" /\ ContainsKeyword(modInput.text)) =>
        /\ Has("inappropriate_language")
        /\ ~verdict.is_appropriate
        /\ verdict.issues = <<"inappropriate_language">> =>
              /\ verdict.confidence = <<4, 5>>
              /\ verdict.suggested_action = "block"

\* an upper-case keyword, nothing else flagged
C11_Witness ==
    /\ Returned
    /\ modInput.kind = "str"
    /\ modInput.text = <<"I", " ", "H", "A", "T", "E", " ", "t", "h", "i", "s">>
    /\ verdict.issues = <<"inappropriate_language">>
    /\ verdict.confidence = <<4, 5>>
    /\ verdict.suggested_action = "block"

IssuePosition(issue) ==
    IF Has(issue) THEN CHOOSE i \in 1..Len(verdict.issues) : verdict.issues[i] = issue ELSE 0

\* C12: a polarity below the threshold adds negative_sentiment and
\* multiplies the confidence the keyword step left by 0.9 (0.9 without a
\* keyword, 0.72 with one); the steps run in the order keyword, sentiment,
\* spam, so the tags appear in that order and a spam flag, coming last, sets
\* the final confidence.
C12_SentimentScalesConfidence ==
    (Returned /\ modInput.kind = "str" /\ modInput.text # <<>>) =>
        /\ Has("negative_sentiment") <=> modInput.sentiment = "negative"
        /\ modInput.sentiment = "negative" =>
              /\ ~Has("spam") =>
                    verdict.confidence = IF ContainsKeyword(modInput.text)
                                         THEN <<18, 25>> ELSE <<9, 10>>
              /\ Has("inappropriate_language") =>
                    IssuePosition("inappropriate_language") < IssuePosition("negative_sentiment")
              /\ Has("spam") =>
                    /\ IssuePosition("negative_sentiment") < IssuePosition("spam")
                    /\ verdict.confidence = <<7, 10>>

\* keyword and negative sentiment, no spam: 0.8 * 0.9 = 0.72
C12_Witness ==
    /\ Returned
    /\ modInput.kind = "str" /\ modInput.sentiment = "negative"
    /\ verdict.issues = <<"inappropriate_language", "negative_sentiment">>
    /\ verdict.confidence = <<18, 25>>

\* C13: calls of moderate on the same input, whatever was moderated in
\* between, return identical verdicts, and no call changes a field of the
\* moderator.
C13_IdempotentAndStateless ==
    /\ moderator = ContentModerator
    /\ \A i, j \in 1..Len(calls) :
          calls[i].input = calls[j].input => calls[i].verdict = calls[j].verdict

\* the same flagged text moderated twice with a different text in between
C13_Witness ==
    /\ Len(calls) = 3
    /\ calls[1].input = calls[3].input
    /\ calls[1].input.kind = "str"
    /\ ~calls[1].verdict.is_appropriate
    /\ calls[2].input # calls[1].input
    /\ calls[2].verdict # calls[1].verdict
    /\ calls[3].verdict = calls[1].verdict

Distinct(seq) == \A i, j \in 1..Len(seq) : seq[i] = seq[j] => i = j

\* C14: every verdict, the error verdict included, has a confidence in
\* [0, 1], an action among approve, review and block, and no tag twice.
C14_VerdictSchema ==
    Returned =>
        /\ verdict.is_appropriate \in BOOLEAN
        /\ RLeq(<<0, 1>>, verdict.confidence) /\ RLeq(verdict.confidence, <<1, 1>>)
        /\ verdict.suggested_action \in {"approve", "review", "block"}
        /\ Distinct(verdict.issues)

\* a text matching two spam patterns is tagged spam once
C14_Witness ==
    /\ Returned
    /\ modInput.kind = "str"
    /\ spam_pattern_1(Lower(modInput.text)) /\ spam_pattern_4(Lower(modInput.text))
    /\ verdict.issues = <<"spam">>

IssuesOf(v) == {v.issues[i] : i \in 1..Len(v.issues)}

\* C15: with the sentiment subsystem unavailable moderate returns a regular
\* verdict: no error tag, no sentiment tag, the keyword and spam steps
\* applied, and the same verdict as for that text with a sentiment that is
\* not negative.
C15_SentimentFailureIsSkipped ==
    \A i \in 1..Len(calls) :
        (calls[i].input.kind = "str" /\ calls[i].input.sentiment = "unavailable") =>
            /\ "moderation_error" \notin IssuesOf(calls[i].verdict)
            /\ "negative_sentiment" \notin IssuesOf(calls[i].verdict)
            /\ "inappropriate_language" \in IssuesOf(calls[i].verdict)
                   <=> ContainsKeyword(calls[i].input.text)
            /\ "spam" \in IssuesOf(calls[i].verdict) <=> is_spam(calls[i].input.text)
            /\ \A j \in 1..Len(calls) :
                  (/\ calls[j].input.kind = "str"
                   /\ calls[j].input.text = calls[i].input.text
                   /\ calls[j].input.sentiment = "not_negative")
                      => calls[j].verdict = calls[i].verdict

\* a text with a banned keyword, moderated with and without the sentiment subsystem
C15_Witness ==
    /\ Len(calls) = 2
    /\ calls[1].input.kind = "str" /\ calls[1].input.sentiment = "not_negative"
    /\ calls[2].input.kind = "str" /\ calls[2].input.sentiment = "unavailable"
    /\ calls[1].input.text = calls[2].input.text
    /\ calls[2].verdict.issues = <<"inappropriate_language">>
    /\ calls[2].verdict = calls[1].verdict

\* C16: a call whose evaluation fails returns a verdict, with issues
\* exactly [moderation_error] and action review.
C16_FailureGivesErrorVerdict ==
    (lastCall.op = "moderate" /\ EvaluationFailed) =>
        /\ Returned
        /\ verdict.issues = <<"moderation_error">>
        /\ verdict.suggested_action = "review"

C16_Witness ==
    /\ lastCall.op = "moderate"
    /\ modInput = [kind |-> "int", value |-> 5]
    /\ verdict.issues = <<"moderation_error">>
    /\ verdict.suggested_action = "review"

----------------------------------------------------------------------------
(* Properties of the recommendation engine *)

InRecs(post_id) == \E i \in 1..Len(recs) : recs[i] = post_id

\* C1: for a user present in the interaction matrix, no item returned by the
\* collaborative filter has a nonzero interaction weight from that user.
C1_NeverRecommendsInteractedItem ==
    (lastCall.op = "collab" /\ lastCall.user_id \in ToSet(FirstSeenUsers(interactions_data))) =>
        \A i \in 1..Len(recs) :
            MatrixCell(interactions_data, posts_data, lastCall.user_id, recs[i]) = 0

\* C2: asked for a user_id that does not occur in the interaction data, or
\* with fewer than 2 users in the matrix, the collaborative filter returns
\* the trending list of the given items.
C2_FallsBackToTrending ==
    (/\ lastCall.op = "collab"
     /\ \/ lastCall.user_id \notin ToSet(FirstSeenUsers(interactions_data))
        \/ Len(FirstSeenUsers(interactions_data)) < 2) =>
        recs = TrendingIds(posts_data, lastCall.k)

PositionIn(ranked, post_id) == CHOOSE i \in 1..Len(ranked) : ranked[i] = post_id

\* the documented term of one input list, 0 for a list the item is absent from
DocumentedTerm(num, den, ranked, post_id) ==
    IF post_id \in ToSet(ranked)
    THEN Rat(num * (Len(ranked) - (PositionIn(ranked, post_id) - 1)), den * Len(ranked))
    ELSE <<0, 1>>

\* C3: the hybrid merge scores every item with
\* 0.6 * (1 - position/len(collab)) + 0.4 * (1 - position/len(content)), an
\* absent list contributing 0, and returns no item that is in neither list.
C3_HybridWeightedSum ==
    lastCall.op = "hybrid" =>
        LET both == ToSet(lastCall.collab_recs) \cup ToSet(lastCall.content_recs)
        IN  /\ {lastCall.post_scores[i].post_id : i \in 1..Len(lastCall.post_scores)} = both
            /\ \A i \in 1..Len(lastCall.post_scores) :
                  lastCall.post_scores[i].score =
                      RAdd(DocumentedTerm(3, 5, lastCall.collab_recs,
                                          lastCall.post_scores[i].post_id),
                           DocumentedTerm(2, 5, lastCall.content_recs,
                                          lastCall.post_scores[i].post_id))
            /\ \A i \in 1..Len(recs) : recs[i] \in both

\* item 2 is first of the collaborative and second of the content list:
\* 0.6 * 1 + 0.4 * 0.5 = 0.8; item 1 is in neither the output nor the content list
C3_Witness ==
    /\ lastCall.op = "hybrid"
    /\ lastCall.collab_recs = <<2, 1>>
    /\ lastCall.content_recs = <<3, 2>>
    /\ lastCall.post_scores = <<[post_id |-> 2, score |-> <<4, 5>>],
                                [post_id |-> 1, score |-> <<3, 10>>],
                                [post_id |-> 3, score |-> <<2, 5>>]>>
    /\ recs = <<2, 3>>

\* position of an item's first appearance, the collaborative list first
FirstAppearance(collab_recs, content_recs, post_id) ==
    IF post_id \in ToSet(collab_recs) THEN PositionIn(collab_recs, post_id)
    ELSE Len(collab_recs) + PositionIn(content_recs, post_id)

CombinedScore(collab_recs, content_recs, post_id) ==
    RAdd(DocumentedTerm(3, 5, collab_recs, post_id), DocumentedTerm(2, 5, content_recs, post_id))

\* x is ranked ahead of y: higher combined score, or equal score and seen first
RankedAhead(collab_recs, content_recs, x, y) ==
    LET sx == CombinedScore(collab_recs, content_recs, x)
        sy == CombinedScore(collab_recs, content_recs, y)
    IN  \/ RLess(sy, sx)
        \/ /\ sx = sy
           /\ FirstAppearance(collab_recs, content_recs, x)
                  < FirstAppearance(collab_recs, content_recs, y)

----------------------------------------------------------------------------
(* Properties of the interaction matrix and the neighbour-based filter *)

\* prepare_training_data has built the matrix of a log that is not empty
MatrixBuilt == recommender.user_idx # <<>>

CellOf(user, item) ==
    recommender.user_item_matrix[Position(recommender.user_idx, user)]
                                [Position(recommender.item_idx, item)]

\* the places in the log where the pair occurs
Occurrences(log, user, item) ==
    {n \in 1..Len(log) : log[n].user_id = user /\ log[n].content_id = item}

\* C17: the cell of a (user, item) pair holds the weight of the last
\* interaction of the pair in log order, also when the pair occurs several
\* times (never the sum of the weights), and 0 when the pair never occurs.
C17_LastWeightWins ==
    MatrixBuilt =>
        \A user \in ToSet(recommender.user_idx), item \in ToSet(recommender.item_idx) :
            LET at == Occurrences(training_data, user, item)
            IN  IF at = {} THEN CellOf(user, item) = 0
                ELSE CellOf(user, item) =
                         training_data[CHOOSE n \in at : \A m \in at : m <= n].engagement_score

\* the pair (1, 1) with weight 2 and then weight 1: the cell holds 1, not 3
C17_Witness ==
    /\ MatrixBuilt
    /\ training_data = <<[user_id |-> 1, content_id |-> 1, engagement_score |-> 2],
                         [user_id |-> 1, content_id |-> 1, engagement_score |-> 1]>>
    /\ CellOf(1, 1) = 1

\* the distinct values of a list in the order of their first occurrence
RECURSIVE FirstSeenOrder(_)
FirstSeenOrder(ids) ==
    IF ids = <<>> THEN <<>>
    ELSE LET r == FirstSeenOrder(SubSeq(ids, 1, Len(ids) - 1))
         IN  IF ids[Len(ids)] \in ToSet(r) THEN r ELSE Append(r, ids[Len(ids)])

\* C18: every user_id and every item_id of the log gets the index that is
\* its rank in first-seen order, so the maps are a function of the log.
C18_IndexIsFirstSeenRank ==
    MatrixBuilt =>
        /\ recommender.user_idx
               = FirstSeenOrder([n \in 1..Len(training_data) |-> training_data[n].user_id])
        /\ recommender.item_idx
               = FirstSeenOrder([n \in 1..Len(training_data) |-> training_data[n].content_id])

\* C20: the neighbours used for a known target user are the min(5, number
\* of other users) users most similar to the target, and the target is not
\* one of them, also when another row equals the target's row.
C20_NeighboursExcludeSelf ==
    (lastCall.op = "neighbours" /\ lastCall.known) =>
        LET matrix == recommender.user_item_matrix
            t == lastCall.user_index
            N == lastCall.similar_users
        IN  /\ t \notin N
            /\ Cardinality(N) = Min(5, Len(matrix) - 1)
            /\ \A v \in N : \A w \in (1..Len(matrix)) \ (N \cup {t}) :
                  ~SimLess(matrix, t, v, w)

----------------------------------------------------------------------------
(* Properties of the behaviour predictor *)

Predicted(user_id) ==
    /\ lastCall.op = "predict_engagement_time"
    /\ lastCall.user_id = user_id
    /\ HasKey(user_activity_patterns, user_id)

\* number of recorded actions of the user in that hour, counted on the action log
ActionCount(user_id, hour) ==
    Cardinality({i \in 1..Len(user_activity_patterns[user_id].actions) :
                    user_activity_patterns[user_id].actions[i].hour = hour})

\* position in the action log of the first action of the user in that hour
FirstRecorded(user_id, hour) ==
    LET at == {i \in 1..Len(user_activity_patterns[user_id].actions) :
                  user_activity_patterns[user_id].actions[i].hour = hour}
    IN  CHOOSE i \in at : \A j \in at : i <= j

RecordedHours(user_id) ==
    {user_activity_patterns[user_id].actions[i].hour :
        i \in 1..Len(user_activity_patterns[user_id].actions)}

\* the result is at most 4 distinct recorded hours in 0..23, the most active ones
TopHours(user_id) ==
    /\ Len(recs) = Min(PeakHours, Cardinality(RecordedHours(user_id)))
    /\ \A i \in 1..Len(recs) : recs[i] \in RecordedHours(user_id) /\ recs[i] \in 0..23
    /\ \A i, j \in 1..Len(recs) : i # j => recs[i] # recs[j]
    /\ \A h \in RecordedHours(user_id) :
           (\A i \in 1..Len(recs) : recs[i] # h) =>
               \A i \in 1..Len(recs) : ActionCount(user_id, h) <= ActionCount(user_id, recs[i])

\* C21 as stated: predict_engagement_time for a user with recorded actions returns at
\* most 4 distinct hours in 0..23 by action count descending, hours of equal count
\* with the earlier hour first, whatever the order in which the actions were recorded.
C21_TiesByEarlierHour ==
    \A u \in ActivityUsers :
        Predicted(u) =>
            /\ TopHours(u)
            /\ \A i, j \in 1..Len(recs) :
                   i < j => \/ ActionCount(u, recs[i]) > ActionCount(u, recs[j])
                            \/ /\ ActionCount(u, recs[i]) = ActionCount(u, recs[j])
                               /\ recs[i] < recs[j]

\* C21 amended: predict_engagement_time for a user with recorded actions returns at
\* most 4 distinct hours in 0..23 by action count descending, hours of equal count
\* in the order in which the hours were first recorded; an hour left out has no more
\* actions than a returned one, and among equal counts was first recorded later.
C21_TiesByFirstRecorded ==
    \A u \in ActivityUsers :
        Predicted(u) =>
            /\ TopHours(u)
            /\ \A i, j \in 1..Len(recs) :
                   i < j => \/ ActionCount(u, recs[i]) > ActionCount(u, recs[j])
                            \/ /\ ActionCount(u, recs[i]) = ActionCount(u, recs[j])
                               /\ FirstRecorded(u, recs[i]) < FirstRecorded(u, recs[j])
            /\ \A h \in RecordedHours(u) :
                   (\A i \in 1..Len(recs) : recs[i] # h) =>
                       \A i \in 1..Len(recs) :
                           ActionCount(u, h) = ActionCount(u, recs[i]) =>
                               FirstRecorded(u, recs[i]) < FirstRecorded(u, h)

\* five hours were recorded, the later hour 18 before the earlier hour 9 with equal
\* counts, and the prediction lists 18 ahead of 9 and leaves the fifth hour out
C21_Witness ==
    /\ Predicted("u1")
    /\ Cardinality(RecordedHours("u1")) = 5
    /\ Len(recs) = 4
    /\ recs[1] = 18
    /\ recs[2] = 9
    /\ ActionCount("u1", 18) = ActionCount("u1", 9)

----------------------------------------------------------------------------
(* Properties of the in-memory app and its preference scores *)

\* C22: for every user and category, no step (preference update with a non-negative
\* score, profile creation, update or deletion, post or reel creation, behaviour
\* recording) lowers the stored preference score or removes the user's entry.
C22_PreferencesNeverDecrease ==
    [][\A u \in DOMAIN user_preferences :
           /\ u \in DOMAIN user_preferences'
           /\ \A c \in KnownTypes :
                  RLeq(user_preferences[u][c], user_preferences'[u][c])]_vars

\* the profile was created, posted in music and was deleted: the scores are kept
C22_Witness ==
    /\ lastCall.op = "DELETE /api/profile"
    /\ lastCall.status = 200
    /\ ~HasKey(users_db, "100000")
    /\ HasKey(user_preferences, "100000")
    /\ user_preferences["100000"]["music"] = <<3, 2>>
    /\ user_preferences["100000"]["comedy"] = <<1, 1>>


UnknownTypeUpdate ==
    /\ lastCall'.op = "update_user_preference"
    /\ lastCall'.content_type \notin KnownTypes

\* C27: an update_user_preference call whose content type is none of the eight known
\* categories creates and modifies no preference entry, and get_recommendations can
\* return for every user exactly what it could return before the call.
C27_UnknownTypeChangesNothing ==
    [][UnknownTypeUpdate =>
           /\ user_preferences' = user_preferences
           /\ \A u \in IdRange, n \in 0..2 :
                  get_recommendations(user_preferences', u, n)
                      = get_recommendations(user_preferences, u, n)]_vars

PostsOf(user_id) == {p \in DOMAIN posts_db : posts_db[p].user_id = user_id}

PostsCountMatches ==
    \A u \in DOMAIN users_db : users_db[u].posts_count = Cardinality(PostsOf(u))

RefusedPostDelete ==
    /\ lastCall'.op = "DELETE /api/post"
    /\ lastCall'.status >= 400

\* C28: after every profile and post request, every user in users_db has posts_count
\* equal to the number of posts in posts_db with that user_id, and a post DELETE that
\* is rejected or fails leaves posts_db unchanged.
C28_PostsCountMatchesPosts ==
    [][/\ PostsCountMatches'
       /\ RefusedPostDelete => posts_db' = posts_db]_vars

----------------------------------------------------------------------------
(* Purity and statelessness of the ranking functions *)

RankingCall == lastCall'.op \in {"collab", "hybrid"}

\* C23: a ranking call (trending, collaborative, content-based, hybrid) leaves the
\* post records and interaction records passed in unchanged: no field is added,
\* removed or modified.
C23_RankingLeavesArgumentsUnchanged ==
    [][RankingCall =>
           /\ posts_data' = posts_data
           /\ interactions_data' = interactions_data]_vars


SameArguments(a, b) ==
    /\ a.user_id = b.user_id
    /\ a.posts_data = b.posts_data
    /\ a.interactions_data = b.interactions_data
    /\ a.num_recommendations = b.num_recommendations

\* C24: two collaborative-filter calls with identical arguments on the same engine
\* return the same result, whatever calls were made on that engine in between.
C24_SameArgumentsSameResult ==
    \A i, j \in 1..Len(answers) :
        SameArguments(answers[i], answers[j]) => answers[i].recs = answers[j].recs

----------------------------------------------------------------------------
(* Properties of concurrent updates *)

CallsFor(op, key) == {t \in DOMAIN threads : threads[t].op = op /\ threads[t].key = key}

AllDone == threads # EmptyDict /\ \A t \in DOMAIN threads : threads[t].pc = "done"

\* every call began when no other call was in progress
Serialized == \A t \in DOMAIN threads : threads[t].serial

RECURSIVE SumOfDeltas(_)
SumOfDeltas(S) ==
    IF S = {} THEN <<0, 1>>
    ELSE LET t == CHOOSE x \in S : TRUE
         IN  RAdd(threads[t].delta, SumOfDeltas(S \ {t}))

\* C25: when the update calls for a key are serialized, the key's mentions equal the
\* number of calls and its score (trend score at one timestamp, preference score)
\* equals the sum of the deltas; under any interleaving no more than that is counted.
\* That a mention and a delta can be lost when the steps interleave is the state
\* C25_Witness.
C25_SerializedUpdatesAllCount ==
    AllDone =>
        /\ \A h \in Hashtags :
               LET c == CallsFor("update_hashtag_trend", h)
               IN  c # {} =>
                       /\ MentionsOf(hashtag_popularity, h) \in 1..Cardinality(c)
                       /\ RLeq(ScoreOf(hashtag_popularity, h), SumOfDeltas(c))
                       /\ Serialized =>
                              /\ MentionsOf(hashtag_popularity, h) = Cardinality(c)
                              /\ ScoreOf(hashtag_popularity, h) = SumOfDeltas(c)
        /\ LET c == CallsFor("update_user_preference", RaceUser)
           IN  c # {} =>
                   /\ RLeq(user_preferences[RaceUser][RaceType], SumOfDeltas(c))
                   /\ Serialized => user_preferences[RaceUser][RaceType] = SumOfDeltas(c)

\* two interleaved update_hashtag_trend("art", ...) calls with deltas 5 and 10 have
\* both returned, and the entry shows one mention and the score 10
C25_Witness ==
    /\ AllDone
    /\ ~Serialized
    /\ Cardinality(CallsFor("update_hashtag_trend", "art")) = 2
    /\ \E t \in DOMAIN threads : threads[t].delta = <<5, 1>>
    /\ MentionsOf(hashtag_popularity, "art") = 1
    /\ ScoreOf(hashtag_popularity, "art") = <<10, 1>>

\* two interleaved update_user_preference calls have both returned and the score is
\* that of one call
LostPreferenceDelta ==
    /\ AllDone
    /\ Cardinality(CallsFor("update_user_preference", RaceUser)) = 2
    /\ RLess(user_preferences[RaceUser][RaceType], SumOfDeltas(DOMAIN threads))

\* two serialized calls for one key have both returned
SerializedPair ==
    /\ AllDone
    /\ Serialized
    /\ Cardinality(CallsFor("update_hashtag_trend", "art")) = 2

----------------------------------------------------------------------------
(* Properties of records with explicit timestamps *)

RECURSIVE RecordedSum(_, _)
RecordedSum(log, hashtag) ==
    IF log = <<>> THEN 0
    ELSE (IF Head(log).hashtag = hashtag THEN Head(log).delta ELSE 0)
             + RecordedSum(Tail(log), hashtag)

\* C26: for non-negative deltas, after any sequence of record calls with any
\* timestamps, the stored score of every key is non-negative and at most the sum of
\* the deltas recorded for that key.
C26_ScoreWithinRecordedSum ==
    \A h \in Hashtags :
        /\ RLeq(<<0, 1>>, ScoreOf(hashtag_popularity, h))
        /\ RLeq(ScoreOf(hashtag_popularity, h), RInt(RecordedSum(recorded, h)))

----------------------------------------------------------------------------
(* Properties of the moderation gate of create_post and add_comment *)

PersistedTexts ==
    {db.posts[i].moderated : i \in 1..Len(db.posts)}
        \cup {db.comments[i].moderated : i \in 1..Len(db.comments)}

Flagged(input) == ModerateText(input).issues # <<>>

Inappropriate(input) == ~ModerateText(input).is_appropriate

TextRequest(call) ==
    /\ call # NoCall
    /\ call.op \in {"create_post", "add_comment"}
    /\ call.input.kind = "str"

\* C29: no caption and no comment text on which the moderator raised any flag
\* is persisted; a request carrying such a text is answered 400 and leaves the
\* database unchanged.
C29_NoFlaggedTextPersisted ==
    [][/\ \A input \in PersistedTexts' : ~Flagged(input)
       /\ TextRequest(lastCall') /\ Flagged(lastCall'.input)
              => lastCall'.status = 400 /\ db' = db]_vars

\* C29 as the code has it: no caption and no comment text that the moderator
\* finds inappropriate (inappropriate_language or spam) is persisted; a
\* request carrying such a text leaves the database unchanged and is answered
\* 400, or 404 by add_comment when the post does not exist.  A text flagged
\* with negative_sentiment only passes the gate.
C29_NoInappropriateTextPersisted ==
    [][/\ \A input \in PersistedTexts' : ~Inappropriate(input)
       /\ TextRequest(lastCall') /\ Inappropriate(lastCall'.input)
              => /\ db' = db
                 /\ \/ lastCall'.status = 400
                    \/ lastCall'.op = "add_comment" /\ lastCall'.status = 404]_vars

\* a caption with negative sentiment was persisted, a comment was persisted,
\* and the last request carried an inappropriate text and was refused
C29_Witness ==
    /\ \E i \in 1..Len(db.posts) :
           /\ Flagged(db.posts[i].moderated)
           /\ ~Inappropriate(db.posts[i].moderated)
    /\ db.comments # <<>>
    /\ TextRequest(lastCall)
    /\ Inappropriate(lastCall.input)
    /\ lastCall.status = 400

----------------------------------------------------------------------------
(* Properties of like_post *)

LikeRequests == {t \in DOMAIN threads : threads[t].op = "like_post"}

AtMostOneLike ==
    \A a \in db.likes, b \in db.likes :
        a.user_id = b.user_id /\ a.post_id = b.post_id => a = b

\* C30: every (user, post) has at most one Like row in every reachable state,
\* also when like requests of one user for one post interleave between the
\* existence check and the commit; and every like request answered 200 changed
\* the like count of the post by exactly +1 (liked) or -1 (unliked).
C30_OneLikeAndCountStep ==
    /\ AtMostOneLike
    /\ \A t \in LikeRequests :
           threads[t].pc = "done" /\ threads[t].status = 200
               => threads[t].delta = IF threads[t].action = "liked" THEN 1 ELSE -1

\* two likes of one user interleaved: the unique constraint refuses the second
InterleavedLikesRefused ==
    \E a \in LikeRequests, b \in LikeRequests :
        /\ threads[a].status = 200 /\ threads[a].action = "liked"
        /\ threads[b].status = 500 /\ threads[b].action = "liked"
        /\ threads[a].user_id = threads[b].user_id

====
